---- MODULE Spec2Model ----
(***************************************************************************)
(* A model of the go-sharding proxy core:                                  *)
(*   - the ClientConn packet writers (server package),                     *)
(*   - the SQL generation runtime (gen package),                           *)
(*   - the rewriting Engine (rewriting package),                           *)
(*   - the connection handshake and the ephemeral packet writers at the    *)
(*     level of bytes (server package),                                    *)
(*   - the Value codec (mysql/types package),                              *)
(*   - Session.Clone (server package),                                     *)
(*   - Value.Equals and Value.Clone over byte slices (mysql/types),         *)
(*   - the namespace service of the control center (cc/service).           *)
(* Each component has its own specification; the variables of the other    *)
(* components stay at their idle values.                                   *)
(***************************************************************************)
EXTENDS Integers, Sequences, FiniteSets, TLC

VARIABLES
    ccPc,        \* position of the running ClientConn writer
    ccOp,        \* the ClientConn method that was called
    ccStatus,    \* its status argument (uint16)
    ccR,         \* the *mysql.Resultset argument: [Fields, RowDatas]
    ccS,         \* the *Stmt argument: [id, paramCount, columnCount]
    ccIdx,       \* loop index of the running for loop
    ccOut,       \* what the connection was asked to send, in order
    ccErr,       \* the error the method returned ("nil" for nil)
    ccBuffering, \* set by StartWriterBuffering
    genPc,       \* position of the running GenerateSql call
    genArgs,     \* its arguments: [defaultDataSource, bindVariables]
    genValues,   \* values, as RestoreShardingValues returned them
    genRuntime,  \* runtime *genRuntime
    genExplVars, \* the bind variables SetVars stored in the SqlExplain (0: none)
    genResult,   \* genResult *SqlGenResult, the result gen builds
    genRet,      \* what GenerateSql returned: [result, err]
    genCalls,    \* the calls GenerateSql made on its collaborators, in order
    rwCall,      \* the Engine method called, with its node and explain context
    rwRet,       \* what it returned: [result, err]
    hsCall,      \* the byte-level ClientConn method called: [method, args]
    hsRet,       \* its outcome: [length, data, sent, err, info]
    valCall,     \* the Value constructor called: [method, typ, val]
    valRet,      \* what it returned: [v, err]
    valConv,     \* the method then called on that Value, with what it returned
    sesPc,       \* "init", then "cloned" or "panic" once Clone has run
    sesHeap,     \* the objects behind pointers, maps and slices, by address
    sesS,        \* the Session s
    sesC,        \* the Session Clone returned
    sesSnap,     \* what s held, all objects followed, when Clone was called
    sesTouched,  \* which of s and c was written to after Clone, and where
    eqPc,        \* "start", then "compared", "cloned" or "panic"
    eqArrays,    \* the backing arrays of the byte slices, by address
    eqV,         \* the *Value v: [nil, ValueType, Value], Value a slice [arr, len]
    eqW,         \* the *Value w
    eqC,         \* the *Value v.Clone() returned
    eqRet,       \* what v.Equals(w) returned
    eqIn,        \* the types and bytes v and w were built from
    mnPc,        \* position of the running ModifyNamespace call
    mnNamespace, \* the name of its namespace argument
    mnProxies,   \* the number of proxies ListProxyMonitorMetrics returned
    mnIdx,       \* index of the running for loop
    mnStore,     \* what the store holds under each name: "none", "old" or "new"
    mnPrepared,  \* the proxies PrepareConfig succeeded on
    mnCommitted, \* the proxies CommitConfig succeeded on
    mnSteps,     \* the steps ModifyNamespace performed, in order: [step, proxy, ok]
    mnErr,       \* the error it returned ("nil" for nil, "none" before it returns)
    qnPc,        \* position of the running QueryNamespace call
    qnNames,     \* its names argument
    qnStore,     \* what LoadNamespace gives for each name: "found", "missing" or "error"
    qnIdx,       \* index of the running for loop
    qnData,      \* data, the namespaces loaded so far, by name
    qnRet,       \* what QueryNamespace returned: [data, err]
    fpOp,        \* the function called: "SQLFingerprint" or "ProxyConfigFingerprint"
    fpPc,        \* position of the calling goroutine
    fpProxies,   \* the number of proxies ListProxyMonitorMetrics returned
    fpIdx,       \* index of the loop that starts the goroutines
    fpWg,        \* the counter of wg
    fpG,         \* the goroutine of each proxy: [pc, ok, sent]
    fpChan,      \* the responses buffered in respC, in order
    fpCap,       \* the capacity of respC
    fpClosed,    \* respC is closed
    fpResult,    \* the responses merged into the result
    fpRet,       \* the error returned ("none" before the return)
    fpFault,     \* a panic of the runtime ("none" when there is none)
    cgPc,        \* position of each of the two concurrent GenerateSql calls
    cgArgs,      \* their arguments: [defaultDataSource, bindVariables]
    cgValues,    \* values, as RestoreShardingValues returned them to each call
    cgRuntime,   \* the runtime of each call
    cgExplVars,  \* the bind variables SetVars stored in the shared SqlExplain (0: none)
    cgResult,    \* the genResult each call builds
    cgRet        \* what each call returned: [result, err]

ccVars == <<ccPc, ccOp, ccStatus, ccR, ccS, ccIdx, ccOut, ccErr, ccBuffering>>

genVars == <<genPc, genArgs, genValues, genRuntime, genExplVars, genResult, genRet, genCalls>>

rwVars == <<rwCall, rwRet>>

hsVars == <<hsCall, hsRet>>

valVars == <<valCall, valRet, valConv>>

sesVars == <<sesPc, sesHeap, sesS, sesC, sesSnap, sesTouched>>

eqVars == <<eqPc, eqArrays, eqV, eqW, eqC, eqRet, eqIn>>

mnVars == <<mnPc, mnNamespace, mnProxies, mnIdx, mnStore, mnPrepared, mnCommitted, mnSteps, mnErr>>

qnVars == <<qnPc, qnNames, qnStore, qnIdx, qnData, qnRet>>

fpVars == <<fpOp, fpPc, fpProxies, fpIdx, fpWg, fpG, fpChan, fpCap, fpClosed, fpResult, fpRet, fpFault>>

cgVars == <<cgPc, cgArgs, cgValues, cgRuntime, cgExplVars, cgResult, cgRet>>

vars == <<ccVars, genVars, rwVars, hsVars, valVars, sesVars, eqVars, mnVars, qnVars, fpVars, cgVars>>

\* An action of one component leaves the other components alone.
ccOnly == UNCHANGED <<genVars, rwVars, hsVars, valVars, sesVars, eqVars, mnVars, qnVars, fpVars, cgVars>>
genOnly == UNCHANGED <<ccVars, rwVars, hsVars, valVars, sesVars, eqVars, mnVars, qnVars, fpVars, cgVars>>
rwOnly == UNCHANGED <<ccVars, genVars, hsVars, valVars, sesVars, eqVars, mnVars, qnVars, fpVars, cgVars>>
hsOnly == UNCHANGED <<ccVars, genVars, rwVars, valVars, sesVars, eqVars, mnVars, qnVars, fpVars, cgVars>>
valOnly == UNCHANGED <<ccVars, genVars, rwVars, hsVars, sesVars, eqVars, mnVars, qnVars, fpVars, cgVars>>
sesOnly == UNCHANGED <<ccVars, genVars, rwVars, hsVars, valVars, eqVars, mnVars, qnVars, fpVars, cgVars>>
eqOnly == UNCHANGED <<ccVars, genVars, rwVars, hsVars, valVars, sesVars, mnVars, qnVars, fpVars, cgVars>>
mnOnly == UNCHANGED <<ccVars, genVars, rwVars, hsVars, valVars, sesVars, eqVars, qnVars, fpVars, cgVars>>
qnOnly == UNCHANGED <<ccVars, genVars, rwVars, hsVars, valVars, sesVars, eqVars, mnVars, fpVars, cgVars>>
fpOnly == UNCHANGED <<ccVars, genVars, rwVars, hsVars, valVars, sesVars, eqVars, mnVars, qnVars, cgVars>>
cgOnly == UNCHANGED <<ccVars, genVars, rwVars, hsVars, valVars, sesVars, eqVars, mnVars, qnVars, fpVars>>

----------------------------------------------------------------------------
(* Bounds of the model. *)

MaxFields == 2
MaxRows == 2
MaxParams == 2
MaxColumns == 2

\* Sequences over S of length at most n.
SeqsUpTo(S, n) == UNION {[1..k -> S] : k \in 0..n}

\* Fields and rows are told apart by an integer standing for their content.
FieldSet == {1, 2}
RowSet == {1, 2}
\* Server status flags handed to the writers (0, SERVER_STATUS_AUTOCOMMIT).
StatusSet == {0, 2}

Resultsets == [Fields : SeqsUpTo(FieldSet, MaxFields), RowDatas : SeqsUpTo(RowSet, MaxRows)]
Stmts == [id : {1}, paramCount : 0..MaxParams, columnCount : 0..MaxColumns]

NoResultset == [Fields |-> <<>>, RowDatas |-> <<>>]
NoStmt == [id |-> 0, paramCount |-> 0, columnCount |-> 0]

----------------------------------------------------------------------------
(* ClientConn: the packets. Every packet is [kind, arg, aux] with integer  *)
(* arg and aux.                                                            *)

ColumnCountPacket(count) == [kind |-> "ColumnCount", arg |-> count, aux |-> 0]
ColumnDefinitionPacket(field) == [kind |-> "ColumnDefinition", arg |-> field, aux |-> 0]
EOFPacket(status) == [kind |-> "EOF", arg |-> status, aux |-> 0]
RowPacket(row) == [kind |-> "Row", arg |-> row, aux |-> 0]
ErrorPacket == [kind |-> "ERR", arg |-> 0, aux |-> 0]
PrepareHeaderPacket(st) == [kind |-> "PrepareOK", arg |-> st.columnCount, aux |-> st.paramCount]
FlushMark == [kind |-> "Flush", arg |-> 0, aux |-> 0]

\* The undefined symbols p and c of writePrepareResponse: the parameter and the
\* result column definition.
ParamField == 101
ColumnField == 102

\* A writer's return: the packet was handed to the connection, or the write failed.
ccSend(packet) == ccOut' = Append(ccOut, packet)

ccReturn(e) ==
    /\ ccErr' = e
    /\ ccPc' = "done"

ccFrame == UNCHANGED <<ccOp, ccStatus, ccR, ccS, ccBuffering>> /\ ccOnly

----------------------------------------------------------------------------
(* ClientConn.writeErrorPacket *)

writeErrorPacket ==
    /\ ccPc = "idle"
    /\ ccOp' = "writeErrorPacket"
    /\ \/ ccSend(ErrorPacket) /\ ccReturn("nil")
       \/ UNCHANGED ccOut /\ ccReturn("io")
    /\ UNCHANGED <<ccStatus, ccR, ccS, ccIdx, ccBuffering>>
    /\ ccOnly

----------------------------------------------------------------------------
(* ClientConn.writeResultset and writeFieldList *)

\* writeResultset entry: StartWriterBuffering, then the column count.
writeResultsetStart ==
    /\ ccPc = "idle"
    /\ \E st \in StatusSet, rs \in Resultsets :
          /\ ccStatus' = st
          /\ ccR' = rs
    /\ ccOp' = "writeResultset"
    /\ ccBuffering' = TRUE
    /\ ccPc' = "columnCount"
    /\ UNCHANGED <<ccS, ccIdx, ccOut, ccErr>>
    /\ ccOnly

writeResultsetColumnCount ==
    /\ ccPc = "columnCount"
    /\ \/ /\ ccSend(ColumnCountPacket(Len(ccR.Fields)))
          /\ ccPc' = "fieldList"
          /\ ccIdx' = 1
          /\ UNCHANGED ccErr
       \/ /\ ccReturn("io")
          /\ UNCHANGED <<ccOut, ccIdx>>
    /\ ccFrame

\* writeFieldList: one column definition per field, in order.
writeFieldListColumn ==
    /\ ccPc = "fieldList"
    /\ ccIdx <= Len(ccR.Fields)
    /\ \/ /\ ccSend(ColumnDefinitionPacket(ccR.Fields[ccIdx]))
          /\ ccIdx' = ccIdx + 1
          /\ UNCHANGED <<ccPc, ccErr>>
       \/ /\ ccReturn("io")
          /\ UNCHANGED <<ccOut, ccIdx>>
    /\ ccFrame

\* Mutant of writeFieldList: the EOF after the definitions is left out.
writeFieldListEOFOmitted ==
    /\ ccPc = "fieldList"
    /\ ccIdx > Len(ccR.Fields)
    /\ ccPc' = "rows"
    /\ ccIdx' = 1
    /\ UNCHANGED <<ccOut, ccErr>>
    /\ ccFrame

\* writeFieldList: the EOF after the definitions.
writeFieldListEOF ==
    /\ ccPc = "fieldList"
    /\ ccIdx > Len(ccR.Fields)
    /\ \/ /\ ccSend(EOFPacket(ccStatus))
          /\ ccPc' = "rows"
          /\ ccIdx' = 1
          /\ UNCHANGED ccErr
       \/ /\ ccReturn("io")
          /\ UNCHANGED <<ccOut, ccIdx>>
    /\ ccFrame

\* Mutant of the row loop: a failed row write answers with an ERR packet.
writeResultsetRowErrPacket ==
    /\ ccPc = "rows"
    /\ ccIdx <= Len(ccR.RowDatas)
    /\ \/ /\ ccSend(RowPacket(ccR.RowDatas[ccIdx]))
          /\ ccIdx' = ccIdx + 1
          /\ UNCHANGED <<ccPc, ccErr>>
       \/ /\ ccSend(ErrorPacket)
          /\ ccReturn("io")
          /\ UNCHANGED ccIdx
    /\ ccFrame

writeResultsetRow ==
    /\ ccPc = "rows"
    /\ ccIdx <= Len(ccR.RowDatas)
    /\ \/ /\ ccSend(RowPacket(ccR.RowDatas[ccIdx]))
          /\ ccIdx' = ccIdx + 1
          /\ UNCHANGED <<ccPc, ccErr>>
       \/ /\ ccReturn("io")
          /\ UNCHANGED <<ccOut, ccIdx>>
    /\ ccFrame

\* Mutant of the final EOF: Flush is still called when the EOF failed.
writeResultsetEOFThenFlush ==
    /\ ccPc = "rows"
    /\ ccIdx > Len(ccR.RowDatas)
    /\ \/ /\ ccSend(EOFPacket(ccStatus))
          /\ ccPc' = "flush"
          /\ UNCHANGED ccErr
       \/ /\ ccSend(FlushMark)
          /\ ccReturn("io")
    /\ UNCHANGED ccIdx
    /\ ccFrame

writeResultsetEOF ==
    /\ ccPc = "rows"
    /\ ccIdx > Len(ccR.RowDatas)
    /\ \/ /\ ccSend(EOFPacket(ccStatus))
          /\ ccPc' = "flush"
          /\ UNCHANGED ccErr
       \/ /\ ccReturn("io")
          /\ UNCHANGED ccOut
    /\ UNCHANGED ccIdx
    /\ ccFrame

writeResultsetFlush ==
    /\ ccPc = "flush"
    /\ \/ /\ ccSend(FlushMark)
          /\ ccReturn("nil")
       \/ /\ ccReturn("io")
          /\ UNCHANGED ccOut
    /\ UNCHANGED ccIdx
    /\ ccFrame

----------------------------------------------------------------------------
(* ClientConn.writePrepareResponse *)

writePrepareResponseStart ==
    /\ ccPc = "idle"
    /\ \E st \in StatusSet, stmt \in Stmts :
          /\ ccStatus' = st
          /\ ccS' = stmt
    /\ ccOp' = "writePrepareResponse"
    /\ ccPc' = "prepareHeader"
    /\ UNCHANGED <<ccR, ccIdx, ccOut, ccErr, ccBuffering>>
    /\ ccOnly

writePrepareResponseHeader ==
    /\ ccPc = "prepareHeader"
    /\ \/ /\ ccSend(PrepareHeaderPacket(ccS))
          /\ ccPc' = "prepareParams"
          /\ ccIdx' = 0
          /\ UNCHANGED ccErr
       \/ /\ ccReturn("io")
          /\ UNCHANGED <<ccOut, ccIdx>>
    /\ ccFrame

\* if s.paramCount > 0 { for ... writeColumnDefinition(p) }
writePrepareResponseParam ==
    /\ ccPc = "prepareParams"
    /\ ccS.paramCount > 0
    /\ ccIdx < ccS.paramCount
    /\ \/ /\ ccSend(ColumnDefinitionPacket(ParamField))
          /\ ccIdx' = ccIdx + 1
          /\ UNCHANGED <<ccPc, ccErr>>
       \/ /\ ccReturn("io")
          /\ UNCHANGED <<ccOut, ccIdx>>
    /\ ccFrame

\* ... err = cc.writeEOFPacket(status); return err }
writePrepareResponseParamEOF ==
    /\ ccPc = "prepareParams"
    /\ ccS.paramCount > 0
    /\ ccIdx >= ccS.paramCount
    /\ \/ /\ ccSend(EOFPacket(ccStatus))
          /\ ccReturn("nil")
       \/ /\ ccReturn("io")
          /\ UNCHANGED ccOut
    /\ UNCHANGED ccIdx
    /\ ccFrame

\* s.paramCount == 0: on to the column block.
writePrepareResponseNoParams ==
    /\ ccPc = "prepareParams"
    /\ ~(ccS.paramCount > 0)
    /\ ccPc' = "prepareColumns"
    /\ ccIdx' = 0
    /\ UNCHANGED <<ccOut, ccErr>>
    /\ ccFrame

\* if s.columnCount > 0 { for ... writeColumnDefinition(c) }
writePrepareResponseColumn ==
    /\ ccPc = "prepareColumns"
    /\ ccS.columnCount > 0
    /\ ccIdx < ccS.columnCount
    /\ \/ /\ ccSend(ColumnDefinitionPacket(ColumnField))
          /\ ccIdx' = ccIdx + 1
          /\ UNCHANGED <<ccPc, ccErr>>
       \/ /\ ccReturn("io")
          /\ UNCHANGED <<ccOut, ccIdx>>
    /\ ccFrame

writePrepareResponseColumnEOF ==
    /\ ccPc = "prepareColumns"
    /\ ccS.columnCount > 0
    /\ ccIdx >= ccS.columnCount
    /\ \/ /\ ccSend(EOFPacket(ccStatus))
          /\ ccReturn("nil")
       \/ /\ ccReturn("io")
          /\ UNCHANGED ccOut
    /\ UNCHANGED ccIdx
    /\ ccFrame

\* s.columnCount == 0: return nil.
writePrepareResponseNoColumns ==
    /\ ccPc = "prepareColumns"
    /\ ~(ccS.columnCount > 0)
    /\ ccReturn("nil")
    /\ UNCHANGED <<ccOut, ccIdx>>
    /\ ccFrame

----------------------------------------------------------------------------
(* gen: the inputs of GenerateSql. *)

MaxDataSources == 2
MaxTables == 2
MaxPhysical == 2

\* Data sources are numbered in name order (ds0, ds1, ...).
DataSources == 0..(MaxDataSources - 1)

\* The bind variable sets a call may carry.
BindVariableSets == {1, 2}

\* Sharding values as RestoreShardingValues restores them: the data sources the
\* statement reaches and, per sharded table, how many physical tables each of
\* them holds. The value is empty when no sharded table has data.
ShardingValues ==
    {[ds |-> 1, tables |-> <<>>]}
    \cup [ds : 1..MaxDataSources,
          tables : UNION {[1..k -> 1..MaxPhysical] : k \in 1..MaxTables}]

\* len(values)
ValuesLen(values) == Len(values.tables)

\* The physical tables of sharded table t on data source d.
PhysicalTables(values, d, t) == {j * values.ds + d : j \in 0..(values.tables[t] - 1)}

NilRuntime == [started |-> FALSE, ds |-> 0, idx |-> <<>>, currentDb |-> 0, bind |-> 0]
NilResult == [Usage |-> "nil", Commands |-> <<>>]

UsageRaw == "Raw"
UsageShard == "Shard"

genIdle ==
    /\ genPc = "idle"
    /\ genArgs = [defaultDataSource |-> 0, bindVariables |-> 0]
    /\ genValues = [ds |-> 1, tables |-> <<>>]
    /\ genRuntime = NilRuntime
    /\ genExplVars = 0
    /\ genResult = NilResult
    /\ genRet = [result |-> NilResult, err |-> "nil"]
    /\ genCalls = <<>>

----------------------------------------------------------------------------
(* genRuntime: the iterator over the destination coordinates. *)

\* NewRuntime(defaultDataSource, expl, values, bindVariables)
NewRuntime(defaultDataSource, values, bindVariables) ==
    [started |-> FALSE, ds |-> 0, idx |-> [t \in 1..ValuesLen(values) |-> 0],
     currentDb |-> defaultDataSource, bind |-> bindVariables]

\* The cursor is on the last physical table of every sharded table.
runtimeLastInDb(values, rt) ==
    \A t \in 1..ValuesLen(values) : rt.idx[t] = values.tables[t] - 1

\* The rightmost sharded table whose cursor can still advance.
runtimeAdvancing(values, rt) ==
    CHOOSE t \in 1..ValuesLen(values) :
        /\ rt.idx[t] < values.tables[t] - 1
        /\ \A u \in (t + 1)..ValuesLen(values) : rt.idx[u] = values.tables[u] - 1

\* runtime.Next() returns true: there is a next coordinate.
runtimeHasNext(values, rt) ==
    \/ ~rt.started
    \/ ~runtimeLastInDb(values, rt)
    \/ rt.ds < values.ds - 1

\* The runtime after runtime.Next(): the next coordinate in lexicographic
\* order, or the runtime unchanged when the cursor is exhausted.
runtimeNext(values, rt) ==
    IF ~rt.started
    THEN [rt EXCEPT !.started = TRUE, !.ds = 0, !.currentDb = 0]
    ELSE IF ~runtimeLastInDb(values, rt)
    THEN LET a == runtimeAdvancing(values, rt)
         IN  [rt EXCEPT !.idx = [t \in 1..ValuesLen(values) |->
                                     IF t < a THEN rt.idx[t]
                                     ELSE IF t = a THEN rt.idx[t] + 1
                                     ELSE 0]]
    ELSE IF rt.ds < values.ds - 1
    THEN [rt EXCEPT !.ds = rt.ds + 1, !.currentDb = rt.ds + 1,
                    !.idx = [t \in 1..ValuesLen(values) |-> 0]]
    ELSE rt

\* The physical table the cursor selects for each sharded table.
runtimeCurrentTables(values, rt) ==
    [t \in 1..ValuesLen(values) |-> rt.idx[t] * values.ds + rt.ds]

\* runtime.GetCurrentBindVariables()
GetCurrentBindVariables(rt) == rt.bind

\* sqlExplain.RestoreSql(runtime) on success: the statement rendered by the
\* writers for the current coordinates, with the variables SetVars stored.
RestoreSql(explVars, values, rt) ==
    [ds |-> rt.ds, tables |-> runtimeCurrentTables(values, rt), vars |-> explVars]

----------------------------------------------------------------------------
(* gen.GenerateSql and gen.gen *)

genReturn(result, err) ==
    /\ genRet' = [result |-> result, err |-> err]
    /\ genPc' = "done"

genLog(call) == genCalls' = Append(genCalls, call)

\* The call: GenerateSql(defaultDataSource, expl, bindVariables).
GenerateSql ==
    /\ genPc = "idle"
    /\ \E d \in DataSources, b \in BindVariableSets :
          genArgs' = [defaultDataSource |-> d, bindVariables |-> b]
    /\ genPc' = "values"
    /\ UNCHANGED <<genValues, genRuntime, genExplVars, genResult, genRet, genCalls>>
    /\ genOnly

\* Mutant of GenerateSqlValues: the branch on len(values) == 0 is missing.
GenerateSqlValuesNoRawBranch ==
    /\ genPc = "values"
    /\ \/ /\ genLog("RestoreShardingValues!error")
          /\ genReturn(NilResult, "error")
          /\ UNCHANGED genValues
       \/ \E values \in ShardingValues :
             /\ genLog("RestoreShardingValues")
             /\ genValues' = values
             /\ genPc' = "runtime"
             /\ UNCHANGED genRet
    /\ UNCHANGED <<genArgs, genRuntime, genExplVars, genResult>>
    /\ genOnly

\* values, vErr := expl.RestoreShardingValues(bindVariables), and the branch on
\* len(values) == 0.
GenerateSqlValues ==
    /\ genPc = "values"
    /\ \/ /\ genLog("RestoreShardingValues!error")
          /\ genReturn(NilResult, "error")
          /\ UNCHANGED genValues
       \/ \E values \in ShardingValues :
             /\ genLog("RestoreShardingValues")
             /\ genValues' = values
             /\ IF ValuesLen(values) = 0
                THEN genReturn([Usage |-> UsageRaw, Commands |-> <<>>], "nil")
                ELSE genPc' = "runtime" /\ UNCHANGED genRet
    /\ UNCHANGED <<genArgs, genRuntime, genExplVars, genResult>>
    /\ genOnly

\* runtime, err := NewRuntime(defaultDataSource, expl, values, bindVariables)
GenerateSqlNewRuntime ==
    /\ genPc = "runtime"
    /\ \/ /\ genLog("NewRuntime")
          /\ genRuntime' = NewRuntime(genArgs.defaultDataSource, genValues, genArgs.bindVariables)
          /\ genPc' = "setVars"
          /\ UNCHANGED genRet
       \/ /\ genLog("NewRuntime!error")
          /\ genReturn(NilResult, "error")
          /\ UNCHANGED genRuntime
    /\ UNCHANGED <<genArgs, genValues, genExplVars, genResult>>
    /\ genOnly

\* err = expl.SetVars(bindVariables), then the entry of gen.
GenerateSqlSetVars ==
    /\ genPc = "setVars"
    /\ \/ /\ genLog("SetVars")
          /\ genExplVars' = genArgs.bindVariables
          /\ genResult' = [Usage |-> UsageShard, Commands |-> <<>>]
          /\ genPc' = "gen"
          /\ UNCHANGED genRet
       \/ /\ genLog("SetVars!error")
          /\ genReturn(NilResult, "error")
          /\ UNCHANGED <<genExplVars, genResult>>
    /\ UNCHANGED <<genArgs, genValues, genRuntime>>
    /\ genOnly

\* Mutant of ScatterCommand: the command is addressed to the default data source.
ScatterCommandToDefault(rt, sql) ==
    [DataSource |-> genArgs.defaultDataSource, SqlCommand |-> sql,
     Vars |-> GetCurrentBindVariables(rt)]

\* cmd := &ScatterCommand{DataSource: runtime.currentDb, SqlCommand: sql, Vars: ...}
ScatterCommand(rt, sql) ==
    [DataSource |-> rt.currentDb, SqlCommand |-> sql, Vars |-> GetCurrentBindVariables(rt)]

\* Mutant of genAppend: the new command is put in front.
genPrepend(result, cmd) == [result EXCEPT !.Commands = <<cmd>> \o @]

\* genResult.Commands = append(genResult.Commands, cmd)
genAppend(result, cmd) == [result EXCEPT !.Commands = Append(@, cmd)]

\* Mutant of gen: a failed RestoreSql returns the commands built so far
\* together with the error.
genReturnsPartial ==
    /\ genPc = "gen"
    /\ IF runtimeHasNext(genValues, genRuntime)
       THEN LET rt == runtimeNext(genValues, genRuntime)
            IN  /\ genRuntime' = rt
                /\ \/ /\ genLog("RestoreSql")
                      /\ genResult' = genAppend(genResult,
                             ScatterCommand(rt, RestoreSql(genExplVars, genValues, rt)))
                      /\ UNCHANGED <<genPc, genRet>>
                   \/ /\ \E e \in {"EmptyInList", "error"} :
                            /\ genLog("RestoreSql!" \o e)
                            /\ genReturn(genResult, e)
                      /\ UNCHANGED genResult
       ELSE /\ genRuntime' = runtimeNext(genValues, genRuntime)
            /\ genReturn(genResult, "nil")
            /\ UNCHANGED <<genResult, genCalls>>
    /\ UNCHANGED <<genArgs, genValues, genExplVars>>
    /\ genOnly

\* Mutant of gen: the loop does not break when runtime.Next() returns false.
genNeverBreaks ==
    /\ genPc = "gen"
    /\ IF runtimeHasNext(genValues, genRuntime)
       THEN LET rt == runtimeNext(genValues, genRuntime)
            IN  /\ genRuntime' = rt
                /\ genLog("RestoreSql")
                /\ genResult' = genAppend(genResult,
                       ScatterCommand(rt, RestoreSql(genExplVars, genValues, rt)))
                /\ UNCHANGED <<genPc, genRet>>
       ELSE /\ genRuntime' = runtimeNext(genValues, genRuntime)
            /\ UNCHANGED <<genPc, genRet, genResult, genCalls>>
    /\ UNCHANGED <<genArgs, genValues, genExplVars>>
    /\ genOnly

\* One iteration of the loop of gen: runtime.Next(), then RestoreSql and the
\* append, or the break and the return of genResult.
gen ==
    /\ genPc = "gen"
    /\ IF runtimeHasNext(genValues, genRuntime)
       THEN LET rt == runtimeNext(genValues, genRuntime)
            IN  /\ genRuntime' = rt
                /\ \/ /\ genLog("RestoreSql")
                      /\ genResult' = genAppend(genResult,
                             ScatterCommand(rt, RestoreSql(genExplVars, genValues, rt)))
                      /\ UNCHANGED <<genPc, genRet>>
                   \/ /\ \E e \in {"EmptyInList", "error"} :
                            /\ genLog("RestoreSql!" \o e)
                            /\ genReturn(NilResult, e)
                      /\ UNCHANGED genResult
       ELSE /\ genRuntime' = runtimeNext(genValues, genRuntime)
            /\ genReturn(genResult, "nil")
            /\ UNCHANGED <<genResult, genCalls>>
    /\ UNCHANGED <<genArgs, genValues, genExplVars>>
    /\ genOnly

----------------------------------------------------------------------------
(* rewriting: the inputs of the Engine. *)

TableNames == {"t1", "t2"}

\* No sharding descriptor (nil).
NoSd == ""

\* The explain context: the sharded tables the catalog knows, whether the
\* catalog lookup and the writer construction fail, and the limit lookup.
ExplainContexts ==
    {c \in [shardingTables : SUBSET TableNames, lookupErr : BOOLEAN, writerErr : BOOLEAN,
            hasLimit : BOOLEAN, hasOffset : BOOLEAN] : c.hasOffset => c.hasLimit}

\* An AST node: whether it has the plain shape the method asserts (a TableName
\* source, a ColumnNameExpr operand) and the table it names.
Nodes == [plain : BOOLEAN, table : TableNames]

NoContext == [shardingTables |-> {}, lookupErr |-> FALSE, writerErr |-> FALSE,
              hasLimit |-> FALSE, hasOffset |-> FALSE]
NoNode == [plain |-> FALSE, table |-> "t1"]

rwIdle ==
    /\ rwCall = [method |-> "none", node |-> NoNode, ctx |-> NoContext]
    /\ rwRet = [result |-> [kind |-> "nil", writer |-> "", sd |-> NoSd], err |-> "nil"]

\* The results of the rewriter.
NilRewriteResult == [kind |-> "nil", writer |-> "", sd |-> NoSd]
NoneRewriteNodeResult == [kind |-> "none", writer |-> "", sd |-> NoSd]
NoneRewriteExprNodeResult == [kind |-> "none", writer |-> "", sd |-> NoSd]
NoneRewriteLimitResult == [kind |-> "none", writer |-> "", sd |-> NoSd]
ResultFromNode(writer, sd) == [kind |-> "rewrite", writer |-> writer, sd |-> sd]
ResultFromExprNode(writer, sd) == [kind |-> "rewrite", writer |-> writer, sd |-> sd]
ResultFromLimit(writer) == [kind |-> "rewrite", writer |-> writer, sd |-> NoSd]

\* FindShardingTable(tableName, explainContext): (sd, ok, err), the catalog
\* lookup of the table.
FindShardingTable(tableName, explainContext) ==
    IF explainContext.lookupErr THEN [sd |-> NoSd, ok |-> FALSE, err |-> "error"]
    ELSE IF tableName \in explainContext.shardingTables
    THEN [sd |-> tableName, ok |-> TRUE, err |-> "nil"]
    ELSE [sd |-> NoSd, ok |-> FALSE, err |-> "nil"]

\* FindShardingTableByColumn(columnName, explainContext, explicit): the lookup
\* of the table that owns the column.
FindShardingTableByColumn(columnName, explainContext, explicit) ==
    FindShardingTable(columnName.table, explainContext)

\* NewTableNameWriter, NewColumnNameWriter, NewPatternInWriter,
\* NewBetweenWriter, NewLimitWriter: (writer, err).
NewWriter(name, explainContext) ==
    IF explainContext.writerErr THEN [writer |-> "", err |-> "error"]
    ELSE [writer |-> name, err |-> "nil"]

----------------------------------------------------------------------------
(* rewriting.Engine *)

\* What RewriteField, RewriteColumn, RewritePatterIn and RewriteBetween do with
\* the outcome of their lookup.
rwFromLookup(found, writerName, explainContext, none) ==
    IF found.err # "nil" THEN [result |-> NilRewriteResult, err |-> found.err]
    ELSE IF found.ok
    THEN LET w == NewWriter(writerName, explainContext)
         IN  IF w.err = "nil"
             THEN [result |-> ResultFromExprNode(w.writer, found.sd), err |-> "nil"]
             ELSE [result |-> NilRewriteResult, err |-> w.err]
    ELSE [result |-> none, err |-> "nil"]

RewriteTable(table, explainContext) ==
    IF ~table.plain
    THEN [result |-> NilRewriteResult, err |-> "table source is not type of TableName"]
    ELSE LET found == FindShardingTable(table.table, explainContext)
         IN  IF found.err # "nil" THEN [result |-> NilRewriteResult, err |-> found.err]
             ELSE IF found.ok
             THEN LET w == NewWriter("TableNameWriter", explainContext)
                  IN  IF w.err = "nil"
                      THEN [result |-> ResultFromNode(w.writer, found.sd), err |-> "nil"]
                      ELSE [result |-> NilRewriteResult, err |-> w.err]
             ELSE [result |-> NoneRewriteNodeResult, err |-> "nil"]

\* Mutant of RewriteField: the result of the lookup (ok) is not looked at.
RewriteFieldIgnoresOk(columnName, explainContext) ==
    LET found == FindShardingTableByColumn(columnName, explainContext, FALSE)
    IN  IF found.err # "nil" THEN [result |-> NilRewriteResult, err |-> found.err]
        ELSE LET w == NewWriter("ColumnNameWriter", explainContext)
             IN  IF w.err = "nil"
                 THEN [result |-> ResultFromExprNode(w.writer, found.sd), err |-> "nil"]
                 ELSE [result |-> NilRewriteResult, err |-> w.err]

RewriteField(columnName, explainContext) ==
    rwFromLookup(FindShardingTableByColumn(columnName, explainContext, FALSE),
                 "ColumnNameWriter", explainContext, NoneRewriteExprNodeResult)

RewriteColumn(columnName, explainContext) ==
    rwFromLookup(FindShardingTableByColumn(columnName, explainContext, TRUE),
                 "ColumnNameWriter", explainContext, NoneRewriteExprNodeResult)

RewritePatterIn(patternIn, explainContext) ==
    IF ~patternIn.plain
    THEN [result |-> NilRewriteResult, err |-> "pattern in statement required ColumnNameExpr"]
    ELSE rwFromLookup(FindShardingTableByColumn(patternIn, explainContext, TRUE),
                      "PatternInWriter", explainContext, NoneRewriteExprNodeResult)

RewriteBetween(between, explainContext) ==
    IF ~between.plain
    THEN [result |-> NilRewriteResult, err |-> "between and statement required ColumnNameExpr"]
    ELSE rwFromLookup(FindShardingTableByColumn(between, explainContext, TRUE),
                      "BetweenWriter", explainContext, NoneRewriteExprNodeResult)

\* Mutant of RewriteLimit: the offset is not looked at.
RewriteLimitIgnoresOffset(limit, explainContext) ==
    IF explainContext.hasLimit
    THEN LET w == NewWriter("LimitWriter", explainContext)
         IN  IF w.err # "nil" THEN [result |-> NilRewriteResult, err |-> w.err]
             ELSE [result |-> ResultFromLimit(w.writer), err |-> "nil"]
    ELSE [result |-> NoneRewriteLimitResult, err |-> "nil"]

RewriteLimit(limit, explainContext) ==
    IF explainContext.hasLimit /\ explainContext.hasOffset
    THEN LET w == NewWriter("LimitWriter", explainContext)
         IN  IF w.err # "nil" THEN [result |-> NilRewriteResult, err |-> w.err]
             ELSE [result |-> ResultFromLimit(w.writer), err |-> "nil"]
    ELSE [result |-> NoneRewriteLimitResult, err |-> "nil"]

\* The explain calls one method of the Engine on a node of the statement.
CallRewriteTable ==
    /\ rwCall.method = "none"
    /\ \E node \in Nodes, ctx \in ExplainContexts :
          /\ rwCall' = [method |-> "RewriteTable", node |-> node, ctx |-> ctx]
          /\ rwRet' = RewriteTable(node, ctx)
    /\ rwOnly

CallRewriteField ==
    /\ rwCall.method = "none"
    /\ \E node \in Nodes, ctx \in ExplainContexts :
          /\ node.plain
          /\ rwCall' = [method |-> "RewriteField", node |-> node, ctx |-> ctx]
          /\ rwRet' = RewriteField(node, ctx)
    /\ rwOnly

CallRewriteColumn ==
    /\ rwCall.method = "none"
    /\ \E node \in Nodes, ctx \in ExplainContexts :
          /\ node.plain
          /\ rwCall' = [method |-> "RewriteColumn", node |-> node, ctx |-> ctx]
          /\ rwRet' = RewriteColumn(node, ctx)
    /\ rwOnly

CallRewritePatterIn ==
    /\ rwCall.method = "none"
    /\ \E node \in Nodes, ctx \in ExplainContexts :
          /\ rwCall' = [method |-> "RewritePatterIn", node |-> node, ctx |-> ctx]
          /\ rwRet' = RewritePatterIn(node, ctx)
    /\ rwOnly

CallRewriteBetween ==
    /\ rwCall.method = "none"
    /\ \E node \in Nodes, ctx \in ExplainContexts :
          /\ rwCall' = [method |-> "RewriteBetween", node |-> node, ctx |-> ctx]
          /\ rwRet' = RewriteBetween(node, ctx)
    /\ rwOnly

CallRewriteLimit ==
    /\ rwCall.method = "none"
    /\ \E node \in Nodes, ctx \in ExplainContexts :
          /\ node.plain
          /\ rwCall' = [method |-> "RewriteLimit", node |-> node, ctx |-> ctx]
          /\ rwRet' = RewriteLimit(node, ctx)
    /\ rwOnly

----------------------------------------------------------------------------
(* Bytes and the wire primitives of the mysql package. A position in a     *)
(* buffer is the number of bytes before it (Go's 0-based index); a writer  *)
(* is modelled by the bytes it stores, in order, so that its final         *)
(* position is the length of what it stored.                               *)

\* A uint32 is kept as its two 16-bit halves.
U32(lo, hi) == [lo |-> lo, hi |-> hi]

\* x & flag != 0, for a uint32 x and a flag of one bit.
HasFlag(x, flag) ==
    IF flag.hi = 0 THEN (x.lo \div flag.lo) % 2 = 1 ELSE (x.hi \div flag.hi) % 2 = 1

ClientConnectWithDB == U32(8, 0)
ClientProtocol41 == U32(512, 0)
ClientSecureConnection == U32(32768, 0)
ClientPluginAuth == U32(0, 8)
ClientPluginAuthLenencClientData == U32(0, 32)

ProtocolVersion == 10
\* "caching_sha2_password"
AUTH_CACHING_SHA2_PASSWORD ==
    <<99, 97, 99, 104, 105, 110, 103, 95, 115, 104, 97, 50, 95,
      112, 97, 115, 115, 119, 111, 114, 100>>
\* "mysql_native_password"
AUTH_NATIVE_PASSWORD ==
    <<109, 121, 115, 113, 108, 95, 110, 97, 116, 105, 118, 101, 95,
      112, 97, 115, 115, 119, 111, 114, 100>>

WriteByte(v) == <<v % 256>>
WriteUint16(v) == <<v % 256, (v \div 256) % 256>>
WriteUint32(x) == WriteUint16(x.lo) \o WriteUint16(x.hi)
WriteBytes(s) == s
WriteNullString(s) == s \o <<0>>
LenNullString(s) == Len(s) + 1
WriteZeroes(n) == [i \in 1..n |-> 0]

LenEncIntSize(n) ==
    IF n < 251 THEN 1
    ELSE IF n < 65536 THEN 3
    ELSE IF n < 16777216 THEN 4
    ELSE 9

WriteLenEncInt(n) ==
    IF n < 251 THEN <<n>>
    ELSE IF n < 65536 THEN <<252>> \o WriteUint16(n)
    ELSE IF n < 16777216 THEN <<253>> \o WriteUint16(n % 65536) \o <<n \div 65536>>
    ELSE <<254>> \o WriteUint16(n % 65536) \o WriteUint16(n \div 65536) \o WriteZeroes(4)

WriteLenEncString(s) == WriteLenEncInt(Len(s)) \o s

\* data[from:to] of Go, for 0 <= from <= to <= len(data)
Slice(data, from, to) == SubSeq(data, from + 1, to)

----------------------------------------------------------------------------
(* ClientConn at the level of bytes: what a call is given and what it      *)
(* leaves behind.                                                          *)

SaltLen == 20

\* "5.7.0-sharding" and "8"
ServerVersions ==
    {<<53, 46, 55, 46, 48, 45, 115, 104, 97, 114, 100, 105, 110, 103>>, <<56>>}
ConnectionIDs == {U32(772, 258), U32(1, 0), U32(65535, 65535)}
Salts == {[i \in 1..SaltLen |-> i - 1], [i \in 1..SaltLen |-> 255 - i]}
DefaultCapabilities == {U32(42501, 33214), U32(33288, 40)}
CollationIDs == {33, 45}

\* The connection and the constants of the build a handshake writer reads.
ClientConns ==
    [connectionID : ConnectionIDs, salt : Salts, version : ServerVersions,
     capability : DefaultCapabilities, collation : CollationIDs, status : StatusSet]

\* Outcome of the write on the socket.
IoOutcomes == {"nil", "io error"}

NoInfo ==
    [Salt |-> <<>>, CollationID |-> 0, User |-> <<>>, ClientPluginAuth |-> FALSE,
     AuthResponse |-> <<>>, Database |-> <<>>, AuthPlugin |-> <<>>]

hsIdle ==
    /\ hsCall = [method |-> "none", args |-> <<>>]
    /\ hsRet = [length |-> 0, data |-> <<>>, sent |-> FALSE, err |-> "nil", info |-> NoInfo]

\* cc.WritePacket(data)
WritePacket(data, io) ==
    [length |-> Len(data), data |-> data, sent |-> io = "nil", err |-> io, info |-> NoInfo]

\* A writer on an ephemeral buffer: StartEphemeralPacket(length), the bytes
\* stored, the sanity check `pos != len(data)` where the writer has one, and
\* WriteEphemeralPacket. Storing past the buffer panics.
WriteEphemeralPacket(length, data, checked, io) ==
    [length |-> length, data |-> data,
     sent |-> Len(data) <= length /\ (checked => Len(data) = length) /\ io = "nil",
     err |-> IF Len(data) > length THEN "panic"
             ELSE IF checked /\ Len(data) # length THEN "internal error"
             ELSE io,
     info |-> NoInfo]

----------------------------------------------------------------------------
(* ClientConn.writeInitialHandshake and writeInitialHandshakeV10 *)

writeInitialHandshake(cc) ==
    <<ProtocolVersion>>
    \o cc.version \o <<0>>
    \o <<cc.connectionID.lo % 256, (cc.connectionID.lo \div 256) % 256,
         cc.connectionID.hi % 256, (cc.connectionID.hi \div 256) % 256>>
    \o SubSeq(cc.salt, 1, 8)
    \o <<0>>
    \o <<cc.capability.lo % 256, (cc.capability.lo \div 256) % 256>>
    \o <<cc.collation % 256>>
    \o <<0, 0>>
    \o <<cc.capability.hi % 256, (cc.capability.hi \div 256) % 256>>
    \o <<8 + 12 + 1>>
    \o <<0, 0, 0, 0, 0, 0, 0, 0, 0, 0>>
    \o SubSeq(cc.salt, 9, Len(cc.salt))
    \o <<0>>
    \o AUTH_CACHING_SHA2_PASSWORD
    \o <<0>>

\* Variant of the length of writeInitialHandshakeV10 that also reserves the
\* plugin name.
writeInitialHandshakeV10LengthWithPlugin(cc) ==
    1 + LenNullString(cc.version) + 4 + 8 + 1 + 2 + 1 + 2 + 2 + 1 + 10 + 13
      + LenNullString(AUTH_NATIVE_PASSWORD)

writeInitialHandshakeV10Length(cc) ==
    1 + LenNullString(cc.version) + 4 + 8 + 1 + 2 + 1 + 2 + 2 + 1 + 10 + 13

writeInitialHandshakeV10Data(cc) ==
    WriteByte(ProtocolVersion)
    \o WriteNullString(cc.version)
    \o WriteUint32(cc.connectionID)
    \o SubSeq(cc.salt, 1, 8)
    \o WriteByte(0)
    \o WriteUint16(cc.capability.lo)
    \o WriteByte(cc.collation)
    \o WriteUint16(cc.status)
    \o WriteUint16(cc.capability.hi)
    \o WriteByte(21)
    \o WriteZeroes(10)
    \o SubSeq(cc.salt, 9, Len(cc.salt))
    \o <<0>>

writeInitialHandshakeV10(cc, io) ==
    WriteEphemeralPacket(writeInitialHandshakeV10Length(cc),
                         writeInitialHandshakeV10Data(cc), TRUE, io)

CallWriteInitialHandshake ==
    /\ hsCall.method = "none"
    /\ \E cc \in ClientConns, io \in IoOutcomes :
          /\ hsCall' = [method |-> "writeInitialHandshake", args |-> cc]
          /\ hsRet' = WritePacket(writeInitialHandshake(cc), io)
    /\ hsOnly

CallWriteInitialHandshakeV10 ==
    /\ hsCall.method = "none"
    /\ \E cc \in ClientConns, io \in IoOutcomes :
          /\ hsCall' = [method |-> "writeInitialHandshakeV10", args |-> cc]
          /\ hsRet' = writeInitialHandshakeV10(cc, io)
    /\ hsOnly

----------------------------------------------------------------------------
(* The read primitives of the mysql package. Each returns the value read,  *)
(* the position after it and whether the read succeeded.                   *)

\* bytes.IndexByte(s, b): the 0-based index of the first b in s, or -1
IndexByte(s, b) ==
    IF \E i \in 1..Len(s) : s[i] = b
    THEN (CHOOSE i \in 1..Len(s) : s[i] = b /\ \A j \in 1..(i - 1) : s[j] # b) - 1
    ELSE -1

ReadByte(data, pos) ==
    IF pos + 1 <= Len(data)
    THEN [val |-> data[pos + 1], pos |-> pos + 1, ok |-> TRUE]
    ELSE [val |-> 0, pos |-> 0, ok |-> FALSE]

ReadUint16(data, pos) ==
    IF pos + 2 <= Len(data)
    THEN [val |-> data[pos + 1] + 256 * data[pos + 2], pos |-> pos + 2, ok |-> TRUE]
    ELSE [val |-> 0, pos |-> 0, ok |-> FALSE]

ReadUint32(data, pos) ==
    IF pos + 4 <= Len(data)
    THEN [val |-> U32(data[pos + 1] + 256 * data[pos + 2], data[pos + 3] + 256 * data[pos + 4]),
          pos |-> pos + 4, ok |-> TRUE]
    ELSE [val |-> U32(0, 0), pos |-> 0, ok |-> FALSE]

ReadNullString(data, pos) ==
    LET end == IF pos <= Len(data) THEN IndexByte(Slice(data, pos, Len(data)), 0) ELSE -1
    IN  IF end = -1
        THEN [val |-> <<>>, pos |-> 0, ok |-> FALSE]
        ELSE [val |-> Slice(data, pos, pos + end), pos |-> pos + end + 1, ok |-> TRUE]

\* A length-encoded integer: one byte below 251, 0xfb for NULL, 0xfc, 0xfd
\* and 0xfe followed by 2, 3 and 8 bytes. Lengths stay below 2^24 here.
ReadLenEncInt(data, pos) ==
    LET bad == [val |-> 0, pos |-> 0, isNull |-> FALSE, ok |-> FALSE]
    IN  IF pos >= Len(data) THEN bad
        ELSE LET b == data[pos + 1]
             IN  IF b < 251 THEN [val |-> b, pos |-> pos + 1, isNull |-> FALSE, ok |-> TRUE]
                 ELSE IF b = 251 THEN [val |-> 0, pos |-> pos + 1, isNull |-> TRUE, ok |-> TRUE]
                 ELSE IF b = 252
                 THEN IF pos + 3 <= Len(data)
                      THEN [val |-> data[pos + 2] + 256 * data[pos + 3], pos |-> pos + 3,
                            isNull |-> FALSE, ok |-> TRUE]
                      ELSE bad
                 ELSE IF b = 253
                 THEN IF pos + 4 <= Len(data)
                      THEN [val |-> data[pos + 2] + 256 * data[pos + 3] + 65536 * data[pos + 4],
                            pos |-> pos + 4, isNull |-> FALSE, ok |-> TRUE]
                      ELSE bad
                 ELSE bad

ReadLenEncStringAsBytes(data, pos) ==
    LET n == ReadLenEncInt(data, pos)
        bad == [val |-> <<>>, pos |-> 0, isNull |-> FALSE, ok |-> FALSE]
    IN  IF ~n.ok THEN bad
        ELSE IF n.isNull THEN [val |-> <<>>, pos |-> n.pos, isNull |-> TRUE, ok |-> TRUE]
        ELSE IF n.pos + n.val > Len(data) THEN bad
        ELSE [val |-> Slice(data, n.pos, n.pos + n.val), pos |-> n.pos + n.val,
              isNull |-> FALSE, ok |-> TRUE]

----------------------------------------------------------------------------
(* readAuthData, readPluginName and ClientConn.readHandshakeResponse. An   *)
(* index or a slice bound past the packet is a panic.                      *)

\* Variant of readAuthData that does not account for the last NUL.
readAuthDataKeepsNul(data, pos, capability) ==
    IF HasFlag(capability, ClientPluginAuthLenencClientData)
    THEN LET r == ReadLenEncStringAsBytes(data, pos)
         IN  IF ~r.ok \/ r.isNull
             THEN [auth |-> <<>>, pos |-> 0, ok |-> FALSE, panic |-> FALSE]
             ELSE [auth |-> r.val, pos |-> r.pos, ok |-> TRUE, panic |-> FALSE]
    ELSE IF HasFlag(capability, ClientSecureConnection)
    THEN IF pos >= Len(data) \/ pos + 1 + data[pos + 1] > Len(data)
         THEN [auth |-> <<>>, pos |-> 0, ok |-> FALSE, panic |-> TRUE]
         ELSE LET authLen == data[pos + 1]
              IN  [auth |-> Slice(data, pos + 1, pos + 1 + authLen),
                   pos |-> pos + 1 + authLen, ok |-> TRUE, panic |-> FALSE]
    ELSE LET authLen == IF pos <= Len(data) THEN IndexByte(Slice(data, pos, Len(data)), 0) ELSE -1
         IN  IF authLen = -1
             THEN [auth |-> <<>>, pos |-> 0, ok |-> FALSE, panic |-> TRUE]
             ELSE [auth |-> Slice(data, pos, pos + authLen),
                   pos |-> pos + authLen, ok |-> TRUE, panic |-> FALSE]

readAuthData(data, pos, capability) ==
    IF HasFlag(capability, ClientPluginAuthLenencClientData)
    THEN LET r == ReadLenEncStringAsBytes(data, pos)
         IN  IF ~r.ok \/ r.isNull
             THEN [auth |-> <<>>, pos |-> 0, ok |-> FALSE, panic |-> FALSE]
             ELSE [auth |-> r.val, pos |-> r.pos, ok |-> TRUE, panic |-> FALSE]
    ELSE IF HasFlag(capability, ClientSecureConnection)
    THEN IF pos >= Len(data) \/ pos + 1 + data[pos + 1] > Len(data)
         THEN [auth |-> <<>>, pos |-> 0, ok |-> FALSE, panic |-> TRUE]
         ELSE LET authLen == data[pos + 1]
              IN  [auth |-> Slice(data, pos + 1, pos + 1 + authLen),
                   pos |-> pos + 1 + authLen, ok |-> TRUE, panic |-> FALSE]
    ELSE LET authLen == IF pos <= Len(data) THEN IndexByte(Slice(data, pos, Len(data)), 0) ELSE -1
         IN  IF authLen = -1
             THEN [auth |-> <<>>, pos |-> 0, ok |-> FALSE, panic |-> TRUE]
             ELSE [auth |-> Slice(data, pos, pos + authLen),
                   pos |-> pos + authLen + 1, ok |-> TRUE, panic |-> FALSE]

readPluginName(data, pos, capability) ==
    IF HasFlag(capability, ClientPluginAuth)
    THEN LET end == IF pos <= Len(data) THEN IndexByte(Slice(data, pos, Len(data)), 0) ELSE -1
         IN  IF end = -1
             THEN [name |-> <<>>, pos |-> pos, panic |-> TRUE]
             ELSE [name |-> Slice(data, pos, pos + end), pos |-> pos + end, panic |-> FALSE]
    ELSE [name |-> AUTH_NATIVE_PASSWORD, pos |-> pos, panic |-> FALSE]

\* What readHandshakeResponse returns: info and err.
hsRead(data, info, err) ==
    [length |-> Len(data), data |-> data, sent |-> FALSE, err |-> err, info |-> info]

readHandshakeResponse(salt, data, io) ==
    LET info0 == [NoInfo EXCEPT !.Salt = salt]
        c == ReadUint32(data, 0)
    IN
    IF io # "nil" THEN hsRead(<<>>, info0, io)
    ELSE IF ~c.ok THEN hsRead(data, info0, "can't read client flags")
    ELSE IF ~HasFlag(c.val, ClientProtocol41) THEN hsRead(data, info0, "only support protocol 4.1")
    ELSE
    LET mx == ReadUint32(data, c.pos) IN
    IF ~mx.ok THEN hsRead(data, info0, "can't read maxPacketSize")
    ELSE
    LET col == ReadByte(data, mx.pos) IN
    IF ~col.ok THEN hsRead(data, info0, "can't read characterSet")
    ELSE
    LET info1 == [info0 EXCEPT !.CollationID = col.val]
        u == ReadNullString(data, col.pos + 23)
    IN
    IF ~u.ok THEN hsRead(data, info1, "can't read username")
    ELSE
    LET a == readAuthData(data, u.pos, c.val)
        info2 == [info1 EXCEPT !.User = u.val,
                               !.ClientPluginAuth = HasFlag(c.val, ClientPluginAuth),
                               !.AuthResponse = a.auth]
    IN
    IF a.panic THEN hsRead(data, info1, "panic")
    ELSE
    LET d == IF HasFlag(c.val, ClientConnectWithDB)
             THEN ReadNullString(data, a.pos)
             ELSE [val |-> <<>>, pos |-> a.pos, ok |-> TRUE]
    IN
    IF ~d.ok THEN hsRead(data, info2, "can't read db")
    ELSE
    LET p == readPluginName(data, d.pos, c.val) IN
    IF p.panic THEN hsRead(data, info2, "panic")
    ELSE hsRead(data, [info2 EXCEPT !.Database = d.val, !.AuthPlugin = p.name], "nil")

----------------------------------------------------------------------------
(* The handshake response of a client, as the protocol lays it out, and    *)
(* the call of readHandshakeResponse on it.                                *)

\* 4-byte and longer auth responses; one holds a NUL, one needs a 3-byte length.
MaxAuthLen == 251

ClientCapabilities ==
    {U32(1 + db + p41 + sec, 2 + pa + le) :
        db \in {0, 8}, p41 \in {0, 512}, sec \in {0, 32768}, pa \in {0, 8}, le \in {0, 32}}
    \cup {U32(42501, 33214)}
\* "" and "root"
UserNames == {<<>>, <<114, 111, 111, 116>>}
AuthResponses == {<<>>, <<1, 39, 255>>, <<0, 7>>, [i \in 1..MaxAuthLen |-> 7]}
\* "" and "db"
DatabaseNames == {<<>>, <<100, 98>>}
PluginNames == {AUTH_NATIVE_PASSWORD, AUTH_CACHING_SHA2_PASSWORD}

HandshakeResponses ==
    [capability : ClientCapabilities, collation : CollationIDs, user : UserNames,
     auth : AuthResponses, db : DatabaseNames, plugin : PluginNames]

NoNul(s) == \A i \in 1..Len(s) : s[i] # 0

\* The auth response can be carried by the encoding the capability selects.
WellFormedResponse(r) ==
    /\ NoNul(r.user) /\ NoNul(r.db) /\ NoNul(r.plugin)
    /\ \/ HasFlag(r.capability, ClientPluginAuthLenencClientData)
       \/ HasFlag(r.capability, ClientSecureConnection) /\ Len(r.auth) < 256
       \/ NoNul(r.auth)

EncodeAuthResponse(capability, auth) ==
    IF HasFlag(capability, ClientPluginAuthLenencClientData) THEN WriteLenEncString(auth)
    ELSE IF HasFlag(capability, ClientSecureConnection) THEN <<Len(auth)>> \o auth
    ELSE auth \o <<0>>

EncodeHandshakeResponse(r) ==
    WriteUint32(r.capability)
    \o WriteUint32(U32(0, 256))
    \o <<r.collation>>
    \o WriteZeroes(23)
    \o r.user \o <<0>>
    \o EncodeAuthResponse(r.capability, r.auth)
    \o (IF HasFlag(r.capability, ClientConnectWithDB) THEN r.db \o <<0>> ELSE <<>>)
    \o (IF HasFlag(r.capability, ClientPluginAuth) THEN r.plugin \o <<0>> ELSE <<>>)

CallReadHandshakeResponse ==
    /\ hsCall.method = "none"
    /\ \E salt \in Salts, r \in HandshakeResponses, io \in IoOutcomes :
          /\ WellFormedResponse(r)
          /\ hsCall' = [method |-> "readHandshakeResponse",
                        args |-> [salt |-> salt, client |-> r,
                                  packet |-> EncodeHandshakeResponse(r), io |-> io]]
          /\ hsRet' = readHandshakeResponse(salt, EncodeHandshakeResponse(r), io)
    /\ hsOnly

\* Length-encoded auth data that cannot be read: the NULL marker 0xfb, and a
\* length of 5 with 2 bytes left in the packet.
UnreadableAuthData == {<<251>>, <<5, 1, 2>>}

\* The handshake response of r with auth data that cannot be read; a
\* truncated packet ends there.
EncodeMalformedHandshakeResponse(r, auth) ==
    WriteUint32(r.capability)
    \o WriteUint32(U32(0, 256))
    \o <<r.collation>>
    \o WriteZeroes(23)
    \o r.user \o <<0>>
    \o auth
    \o (IF auth = <<251>> /\ HasFlag(r.capability, ClientConnectWithDB) THEN r.db \o <<0>> ELSE <<>>)
    \o (IF auth = <<251>> /\ HasFlag(r.capability, ClientPluginAuth) THEN r.plugin \o <<0>> ELSE <<>>)

\* readHandshakeResponse on a packet whose auth data cannot be read.
CallReadMalformedHandshakeResponse ==
    /\ hsCall.method = "none"
    /\ \E salt \in Salts, r \in HandshakeResponses, auth \in UnreadableAuthData :
          /\ HasFlag(r.capability, ClientProtocol41)
          /\ HasFlag(r.capability, ClientPluginAuthLenencClientData)
          /\ NoNul(r.user) /\ NoNul(r.db) /\ NoNul(r.plugin)
          /\ hsCall' = [method |-> "readHandshakeResponse (auth unreadable)",
                        args |-> [salt |-> salt, client |-> r,
                                  packet |-> EncodeMalformedHandshakeResponse(r, auth),
                                  io |-> "nil"]]
          /\ hsRet' = readHandshakeResponse(salt, EncodeMalformedHandshakeResponse(r, auth), "nil")
    /\ hsOnly

----------------------------------------------------------------------------
(* The writers on an ephemeral buffer: for each, the length it reserves    *)
(* and the bytes it stores.                                                *)

MaxNameLen == 251

MoreDataPacket == 1
AuthSwitchHeader == 254
CacheSha2FastAuthSucceed == 3
CacheSha2FullAuthRequired == 4

\* "", "a" and a name whose length needs a 3-byte length-encoded integer
FieldNames == {<<>>, <<97>>, [i \in 1..MaxNameLen |-> 97]}
MysqlFields ==
    [Schema : FieldNames, Table : FieldNames, OrgTable : FieldNames, Name : FieldNames,
     OrgName : FieldNames, Charset : {33}, ColumnLength : {U32(11, 0), U32(65535, 65535)},
     Type : {3, 253}, Flag : {0, 4097}, Decimal : {0}]
\* Counts on both sides of each size of a length-encoded integer.
ColumnCounts == {0, 1, 250, 251, 65535, 65536, 16777215, 16777216}
RowBytes == {<<>>, <<251>>, <<1, 49, 1, 97>>, [i \in 1..MaxNameLen |-> 49]}
MoreDataFlags == {CacheSha2FastAuthSucceed, CacheSha2FullAuthRequired}
PrepareStmts ==
    [id : {U32(1, 0), U32(65535, 65535)}, columnCount : {0, 1, 65535, 65536},
     paramCount : {0, 2, 65537}]

writeColumnDefinitionLength(field) ==
    4 + LenEncIntSize(Len(field.Schema)) + Len(field.Schema)
      + LenEncIntSize(Len(field.Table)) + Len(field.Table)
      + LenEncIntSize(Len(field.OrgTable)) + Len(field.OrgTable)
      + LenEncIntSize(Len(field.Name)) + Len(field.Name)
      + LenEncIntSize(Len(field.OrgName)) + Len(field.OrgName)
      + 1 + 2 + 4 + 1 + 2 + 1 + 2

writeColumnDefinitionData(field) ==
    WriteLenEncString(<<100, 101, 102>>)
    \o WriteLenEncInt(Len(field.Schema)) \o field.Schema
    \o WriteLenEncInt(Len(field.Table)) \o field.Table
    \o WriteLenEncInt(Len(field.OrgTable)) \o field.OrgTable
    \o WriteLenEncInt(Len(field.Name)) \o field.Name
    \o WriteLenEncInt(Len(field.OrgName)) \o field.OrgName
    \o WriteByte(12)
    \o WriteUint16(field.Charset)
    \o WriteUint32(field.ColumnLength)
    \o WriteByte(field.Type)
    \o WriteUint16(field.Flag)
    \o WriteByte(field.Decimal)
    \o WriteUint16(0)

writeColumnDefinition(field, io) ==
    WriteEphemeralPacket(writeColumnDefinitionLength(field),
                         writeColumnDefinitionData(field), TRUE, io)

writePrepareResponseHeaderLength == 1 + 4 + 2 + 2 + 1 + 2

writePrepareResponseHeaderData(s) ==
    WriteByte(0)
    \o WriteUint32(s.id)
    \o WriteUint16(s.columnCount % 65536)
    \o WriteUint16(s.paramCount % 65536)
    \o WriteByte(0)
    \o WriteUint16(0)

writePrepareResponseHeaderBytes(s, io) ==
    WriteEphemeralPacket(writePrepareResponseHeaderLength,
                         writePrepareResponseHeaderData(s), TRUE, io)

writeColumnCount(count, io) ==
    WriteEphemeralPacket(LenEncIntSize(count), WriteLenEncInt(count), FALSE, io)

writeRow(row, io) ==
    WriteEphemeralPacket(Len(row), row, FALSE, io)

writeMoreDataFlag(value, io) ==
    WriteEphemeralPacket(2, WriteByte(MoreDataPacket) \o WriteByte(value), FALSE, io)

WriteAuthSwitchRequest(salt, authMethod, io) ==
    WriteEphemeralPacket(1 + Len(authMethod) + 1 + Len(salt) + 1,
                         WriteByte(AuthSwitchHeader) \o WriteNullString(authMethod)
                             \o WriteBytes(salt) \o WriteByte(0),
                         FALSE, io)

CallWriteColumnDefinition ==
    /\ hsCall.method = "none"
    /\ \E field \in MysqlFields, io \in IoOutcomes :
          /\ hsCall' = [method |-> "writeColumnDefinition", args |-> [field |-> field, io |-> io]]
          /\ hsRet' = writeColumnDefinition(field, io)
    /\ hsOnly

CallWritePrepareResponseHeader ==
    /\ hsCall.method = "none"
    /\ \E s \in PrepareStmts, io \in IoOutcomes :
          /\ hsCall' = [method |-> "writePrepareResponse", args |-> [s |-> s, io |-> io]]
          /\ hsRet' = writePrepareResponseHeaderBytes(s, io)
    /\ hsOnly

CallWriteColumnCount ==
    /\ hsCall.method = "none"
    /\ \E count \in ColumnCounts, io \in IoOutcomes :
          /\ hsCall' = [method |-> "writeColumnCount", args |-> [count |-> count, io |-> io]]
          /\ hsRet' = writeColumnCount(count, io)
    /\ hsOnly

CallWriteRow ==
    /\ hsCall.method = "none"
    /\ \E row \in RowBytes, io \in IoOutcomes :
          /\ hsCall' = [method |-> "writeRow", args |-> [row |-> row, io |-> io]]
          /\ hsRet' = writeRow(row, io)
    /\ hsOnly

CallWriteMoreDataFlag ==
    /\ hsCall.method = "none"
    /\ \E value \in MoreDataFlags, io \in IoOutcomes :
          /\ hsCall' = [method |-> "writeMoreDataFlag", args |-> [value |-> value, io |-> io]]
          /\ hsRet' = writeMoreDataFlag(value, io)
    /\ hsOnly

CallWriteAuthSwitchRequest ==
    /\ hsCall.method = "none"
    /\ \E salt \in Salts, authMethod \in PluginNames, io \in IoOutcomes :
          /\ hsCall' = [method |-> "WriteAuthSwitchRequest",
                        args |-> [salt |-> salt, authMethod |-> authMethod, io |-> io]]
          /\ hsRet' = WriteAuthSwitchRequest(salt, authMethod, io)
    /\ hsOnly

----------------------------------------------------------------------------
(* Numbers of 64 bits and more. A natural number is the sequence of its    *)
(* decimal digits, least significant first and without leading zeros (the  *)
(* empty sequence is 0); an integer is [neg, mag] with mag the digits most *)
(* significant first, <<0>> for zero.                                      *)

Reverse(s) == [i \in 1..Len(s) |-> s[Len(s) + 1 - i]]

\* n * m + carry
RECURSIVE BigMulAdd(_, _, _)
BigMulAdd(n, m, carry) ==
    IF n = <<>>
    THEN IF carry = 0 THEN <<>> ELSE <<carry % 10>> \o BigMulAdd(<<>>, m, carry \div 10)
    ELSE LET t == Head(n) * m + carry
         IN  <<t % 10>> \o BigMulAdd(Tail(n), m, t \div 10)

\* a < b
BigLess(a, b) ==
    \/ Len(a) < Len(b)
    \/ /\ Len(a) = Len(b)
       /\ \E i \in 1..Len(a) : a[i] < b[i] /\ \A j \in (i + 1)..Len(a) : a[j] = b[j]

\* 1<<64 - 1, 1<<63 and 1<<63 - 1
MaxUint64 == Reverse(<<1, 8, 4, 4, 6, 7, 4, 4, 0, 7, 3, 7, 0, 9, 5, 5, 1, 6, 1, 5>>)
Cutoff63 == Reverse(<<9, 2, 2, 3, 3, 7, 2, 0, 3, 6, 8, 5, 4, 7, 7, 5, 8, 0, 8>>)
MaxInt64 == Reverse(<<9, 2, 2, 3, 3, 7, 2, 0, 3, 6, 8, 5, 4, 7, 7, 5, 8, 0, 7>>)

Int64Of(neg, n) == [neg |-> neg /\ n # <<>>, mag |-> IF n = <<>> THEN <<0>> ELSE Reverse(n)]
ZeroInt == Int64Of(FALSE, <<>>)

----------------------------------------------------------------------------
(* strconv: ParseUint, ParseInt, ParseFloat, AppendInt and AppendUint.     *)
(* Texts are sequences of ASCII codes.                                     *)

\* c | ('x' - 'X')
lower(c) == IF (c \div 32) % 2 = 1 THEN c ELSE c + 32

\* The digit a character stands for, or -1.
DigitOf(c) ==
    IF 48 <= c /\ c <= 57 THEN c - 48
    ELSE IF 97 <= lower(c) /\ lower(c) <= 122 THEN lower(c) - 97 + 10
    ELSE -1

\* underscoreOK: underscores only between digits, or after a base prefix.
\* saw is "^" at the start, "0" after a digit, "_" after an underscore and
\* "!" after anything else.
RECURSIVE underscoreScan(_, _, _, _)
underscoreScan(s, i, hex, saw) ==
    IF i > Len(s) THEN saw # "_"
    ELSE IF (48 <= s[i] /\ s[i] <= 57) \/ (hex /\ 97 <= lower(s[i]) /\ lower(s[i]) <= 102)
    THEN underscoreScan(s, i + 1, hex, "0")
    ELSE IF s[i] = 95
    THEN IF saw # "0" THEN FALSE ELSE underscoreScan(s, i + 1, hex, "_")
    ELSE IF saw = "_" THEN FALSE
    ELSE underscoreScan(s, i + 1, hex, "!")

underscoreOK(s0) ==
    LET s == IF Len(s0) >= 1 /\ s0[1] \in {43, 45} THEN Tail(s0) ELSE s0
    IN  IF Len(s) >= 2 /\ s[1] = 48 /\ lower(s[2]) \in {98, 111, 120}
        THEN underscoreScan(s, 3, lower(s[2]) = 120, "0")
        ELSE underscoreScan(s, 1, FALSE, "^")

\* The digit loop of ParseUint: [err, n, underscores].
RECURSIVE parseDigits(_, _, _, _, _, _)
parseDigits(s, i, base, base0, n, underscores) ==
    IF i > Len(s) THEN [err |-> "nil", n |-> n, underscores |-> underscores]
    ELSE IF s[i] = 95 /\ base0 THEN parseDigits(s, i + 1, base, base0, n, TRUE)
    ELSE IF DigitOf(s[i]) = -1 \/ DigitOf(s[i]) >= base
    THEN [err |-> "strconv.ErrSyntax", n |-> <<>>, underscores |-> underscores]
    ELSE LET n1 == BigMulAdd(n, base, DigitOf(s[i]))
         IN  IF BigLess(MaxUint64, n1)
             THEN [err |-> "strconv.ErrRange", n |-> MaxUint64, underscores |-> underscores]
             ELSE parseDigits(s, i + 1, base, base0, n1, underscores)

\* strconv.ParseUint(s, base, 64) for base 0 and base 10: [err, n].
ParseUint(s, base) ==
    IF s = <<>> THEN [err |-> "strconv.ErrSyntax", n |-> <<>>]
    ELSE LET prefixed == base = 0 /\ s[1] = 48
             letter == IF prefixed /\ Len(s) >= 3 THEN lower(s[2]) ELSE 0
             trueBase == IF ~prefixed THEN 10
                         ELSE IF letter = 98 THEN 2
                         ELSE IF letter = 120 THEN 16
                         ELSE 8
             digits == IF ~prefixed THEN s
                       ELSE IF letter \in {98, 111, 120} THEN SubSeq(s, 3, Len(s))
                       ELSE Tail(s)
             r == parseDigits(digits, 1, trueBase, base = 0, <<>>, FALSE)
         IN  IF r.err # "nil" THEN [err |-> r.err, n |-> r.n]
             ELSE IF r.underscores /\ ~underscoreOK(s)
             THEN [err |-> "strconv.ErrSyntax", n |-> <<>>]
             ELSE [err |-> "nil", n |-> r.n]

\* strconv.ParseInt(s, base, 64) for base 0 and base 10: [err, i].
ParseInt(s, base) ==
    IF s = <<>> THEN [err |-> "strconv.ErrSyntax", i |-> ZeroInt]
    ELSE LET neg == s[1] = 45
             un == ParseUint(IF s[1] \in {43, 45} THEN Tail(s) ELSE s, base)
         IN  IF un.err = "strconv.ErrSyntax" THEN [err |-> un.err, i |-> ZeroInt]
             ELSE IF ~neg /\ ~BigLess(un.n, Cutoff63)
             THEN [err |-> "strconv.ErrRange", i |-> Int64Of(FALSE, MaxInt64)]
             ELSE IF neg /\ BigLess(Cutoff63, un.n)
             THEN [err |-> "strconv.ErrRange", i |-> Int64Of(TRUE, Cutoff63)]
             ELSE [err |-> "nil", i |-> Int64Of(neg, un.n)]

\* strconv.AppendInt(nil, i, 10) and strconv.AppendUint(nil, n, 10)
AppendInt(i) ==
    (IF i.neg THEN <<45>> ELSE <<>>) \o [k \in 1..Len(i.mag) |-> 48 + i.mag[k]]
AppendUint(n) == AppendInt(Int64Of(FALSE, n))

\* The scan of ParseFloat over a decimal float: the mantissa ("mant"), the
\* character after the e ("expSign") and the digits of the exponent
\* ("expDigits"). nd: the mantissa has a digit; dot: it has its point; ed:
\* the exponent has a digit.
RECURSIVE floatScan(_, _, _, _, _, _)
floatScan(s, i, phase, nd, dot, ed) ==
    IF i > Len(s) THEN nd /\ (phase = "mant" \/ ed)
    ELSE LET c == s[i]
             digit == 48 <= c /\ c <= 57
         IN  IF phase = "mant"
             THEN IF digit THEN floatScan(s, i + 1, phase, TRUE, dot, ed)
                  ELSE IF c = 95 THEN floatScan(s, i + 1, phase, nd, dot, ed)
                  ELSE IF c = 46 THEN ~dot /\ floatScan(s, i + 1, phase, nd, TRUE, ed)
                  ELSE IF lower(c) = 101 THEN nd /\ floatScan(s, i + 1, "expSign", nd, dot, ed)
                  ELSE FALSE
             ELSE IF phase = "expSign"
             THEN IF digit THEN floatScan(s, i + 1, "expDigits", nd, dot, TRUE)
                  ELSE IF c \in {43, 45} THEN floatScan(s, i + 1, "expDigits", nd, dot, ed)
                  ELSE FALSE
             ELSE IF digit THEN floatScan(s, i + 1, phase, nd, dot, TRUE)
                  ELSE IF c = 95 /\ ed THEN floatScan(s, i + 1, phase, nd, dot, ed)
                  ELSE FALSE

\* "inf", "infinity" and "nan", in lower case
floatSpecials ==
    {<<105, 110, 102>>, <<105, 110, 102, 105, 110, 105, 116, 121>>, <<110, 97, 110>>}

\* strconv.ParseFloat(s, 64), for decimal floats within the range of a
\* float64: the error it returns.
ParseFloat(s) ==
    LET unsigned == IF s # <<>> /\ s[1] \in {43, 45} THEN Tail(s) ELSE s
        folded == [i \in 1..Len(unsigned) |-> lower(unsigned[i])]
    IN  IF folded \in floatSpecials /\ (folded = <<110, 97, 110>> => unsigned = s) THEN "nil"
        ELSE IF /\ floatScan(unsigned, 1, "mant", FALSE, FALSE, FALSE)
                /\ ((\E i \in 1..Len(s) : s[i] = 95) => underscoreOK(s))
        THEN "nil"
        ELSE "strconv.ErrSyntax"

----------------------------------------------------------------------------
(* The types of a Value and their classes. *)

SignedTypes == {"Int8", "Int16", "Int32", "Int64"}
UnsignedTypes == {"Uint8", "Uint16", "Uint32", "Uint64"}
FloatTypes == {"Float32", "Float64"}
QuotedTypes ==
    {"VarChar", "VarBinary", "Text", "Blob", "Enum", "Set", "Date", "Time", "Datetime",
     "Timestamp", "Json"}
MySqlTypes ==
    SignedTypes \cup UnsignedTypes \cup FloatTypes \cup QuotedTypes
        \cup {"Null", "Decimal", "Bit", "Expression", "TypeTuple"}

IsSigned(t) == t \in SignedTypes
IsUnsigned(t) == t \in UnsignedTypes
IsIntegral(t) == IsSigned(t) \/ IsUnsigned(t)
IsFloat(t) == t \in FloatTypes
IsQuoted(t) == t \in QuotedTypes
IsNumber(t) == IsIntegral(t) \/ IsFloat(t) \/ t = "Decimal"

----------------------------------------------------------------------------
(* Value: its constructors. A constructor returns [v, err].                *)

NULL == [ValueType |-> "Null", Value |-> <<>>]

\* Variant of MakeTrusted without the test for Null.
MakeTrustedKeepsBytes(typ, val) == [ValueType |-> typ, Value |-> val]

MakeTrusted(typ, val) ==
    IF typ = "Null" THEN NULL ELSE [ValueType |-> typ, Value |-> val]

\* Variant of NewValue that refuses the type Null.
NewValueRefusesNull(typ, val) ==
    IF IsSigned(typ)
    THEN IF ParseInt(val, 0).err # "nil"
         THEN [v |-> NULL, err |-> ParseInt(val, 0).err]
         ELSE [v |-> MakeTrusted(typ, val), err |-> "nil"]
    ELSE IF IsUnsigned(typ)
    THEN IF ParseUint(val, 0).err # "nil"
         THEN [v |-> NULL, err |-> ParseUint(val, 0).err]
         ELSE [v |-> MakeTrusted(typ, val), err |-> "nil"]
    ELSE IF IsFloat(typ) \/ typ = "Decimal"
    THEN IF ParseFloat(val) # "nil"
         THEN [v |-> NULL, err |-> ParseFloat(val)]
         ELSE [v |-> MakeTrusted(typ, val), err |-> "nil"]
    ELSE IF IsQuoted(typ) \/ typ = "Bit"
    THEN [v |-> MakeTrusted(typ, val), err |-> "nil"]
    ELSE [v |-> NULL, err |-> "invalid type"]

NewValue(typ, val) ==
    IF IsSigned(typ)
    THEN IF ParseInt(val, 0).err # "nil"
         THEN [v |-> NULL, err |-> ParseInt(val, 0).err]
         ELSE [v |-> MakeTrusted(typ, val), err |-> "nil"]
    ELSE IF IsUnsigned(typ)
    THEN IF ParseUint(val, 0).err # "nil"
         THEN [v |-> NULL, err |-> ParseUint(val, 0).err]
         ELSE [v |-> MakeTrusted(typ, val), err |-> "nil"]
    ELSE IF IsFloat(typ) \/ typ = "Decimal"
    THEN IF ParseFloat(val) # "nil"
         THEN [v |-> NULL, err |-> ParseFloat(val)]
         ELSE [v |-> MakeTrusted(typ, val), err |-> "nil"]
    ELSE IF IsQuoted(typ) \/ typ = "Bit" \/ typ = "Null"
    THEN [v |-> MakeTrusted(typ, val), err |-> "nil"]
    ELSE [v |-> NULL, err |-> "invalid type"]

NewInt64(i) == MakeTrusted("Int64", AppendInt(i))
NewUint64(i) == MakeTrusted("Uint64", AppendInt(i))
NewVarChar(val) == MakeTrusted("VarChar", val)
\* A float64 is given by the text AppendFloat(nil, v, 'g', -1, 64) renders.
NewFloat64(text) == MakeTrusted("Float64", text)

NewIntegral(val) ==
    IF ParseInt(val, 0).err = "nil"
    THEN [v |-> MakeTrusted("Int64", AppendInt(ParseInt(val, 0).i)), err |-> "nil"]
    ELSE IF ParseUint(val, 0).err # "nil"
    THEN [v |-> NULL, err |-> ParseUint(val, 0).err]
    ELSE [v |-> MakeTrusted("Uint64", AppendUint(ParseUint(val, 0).n)), err |-> "nil"]

\* The dynamic types of the argument of InterfaceToValue.
GoTypes == {"nil", "[]byte", "int64", "uint64", "float64", "string", "int"}

InterfaceToValue(gotype, val, num) ==
    IF gotype = "nil" THEN [v |-> NULL, err |-> "nil"]
    ELSE IF gotype = "[]byte" THEN [v |-> MakeTrusted("VarBinary", val), err |-> "nil"]
    ELSE IF gotype = "int64" THEN [v |-> NewInt64(num), err |-> "nil"]
    ELSE IF gotype = "uint64" THEN [v |-> NewUint64(num), err |-> "nil"]
    ELSE IF gotype = "float64" THEN [v |-> NewFloat64(val), err |-> "nil"]
    ELSE IF gotype = "string" THEN [v |-> NewVarChar(val), err |-> "nil"]
    ELSE [v |-> NULL, err |-> "unexpected type"]

----------------------------------------------------------------------------
(* Value: the conversions and EncodeSQL. *)

ValueToString(v) == IF v.ValueType = "Expression" THEN <<>> ELSE v.Value

ToInt64(v) ==
    IF ~IsIntegral(v.ValueType)
    THEN [i |-> ZeroInt, err |-> "ErrIncompatibleTypeCast"]
    ELSE [i |-> ParseInt(ValueToString(v), 10).i, err |-> ParseInt(ValueToString(v), 10).err]

ToUint64(v) ==
    IF ~IsIntegral(v.ValueType)
    THEN [i |-> ZeroInt, err |-> "ErrIncompatibleTypeCast"]
    ELSE [i |-> Int64Of(FALSE, ParseUint(ValueToString(v), 10).n), err |-> ParseUint(ValueToString(v), 10).err]

\* The float64 itself is not represented, only the error.
ToFloat64(v) ==
    IF ~IsNumber(v.ValueType) THEN "ErrIncompatibleTypeCast" ELSE ParseFloat(ValueToString(v))

ToBool(v) ==
    IF ToInt64(v).err # "nil" THEN [b |-> FALSE, err |-> ToInt64(v).err]
    ELSE IF ToInt64(v).i = ZeroInt THEN [b |-> FALSE, err |-> "nil"]
    ELSE IF ToInt64(v).i = Int64Of(FALSE, <<1>>) THEN [b |-> TRUE, err |-> "nil"]
    ELSE [b |-> FALSE, err |-> "ErrIncompatibleTypeCast"]

DontEscape == 255

\* Variant of encodeRef without the backslash.
encodeRefNoBackslash ==
    (0 :> 48) @@ (39 :> 39) @@ (34 :> 34) @@ (8 :> 98) @@ (10 :> 110) @@ (13 :> 114)
        @@ (9 :> 116) @@ (26 :> 90)

\* NUL, quote, double quote, \b, \n, \r, \t, ctl-Z and the backslash
encodeRef ==
    (0 :> 48) @@ (39 :> 39) @@ (34 :> 34) @@ (8 :> 98) @@ (10 :> 110) @@ (13 :> 114)
        @@ (9 :> 116) @@ (26 :> 90) @@ (92 :> 92)

\* The table init() builds.
SQLEncodeMap ==
    [ch \in 0..255 |-> IF ch \in DOMAIN encodeRef THEN encodeRef[ch] ELSE DontEscape]

RECURSIVE encodeBytes(_)
encodeBytes(val) ==
    IF val = <<>> THEN <<>>
    ELSE (IF SQLEncodeMap[Head(val)] = DontEscape
          THEN <<Head(val)>>
          ELSE <<92, SQLEncodeMap[Head(val)]>>)
         \o encodeBytes(Tail(val))

encodeBytesSQL(val) == <<39>> \o encodeBytes(val) \o <<39>>

\* "%08b" of a byte
Bits8(ch) == [k \in 1..8 |-> 48 + ((ch \div (2 ^ (8 - k))) % 2)]

RECURSIVE encodeBits(_)
encodeBits(val) == IF val = <<>> THEN <<>> ELSE Bits8(Head(val)) \o encodeBits(Tail(val))

encodeBytesSQLBits(val) == <<98, 39>> \o encodeBits(val) \o <<39>>

\* "null"
nullstr == <<110, 117, 108, 108>>

\* What EncodeSQL writes to b; b is a buffer whose Write does not fail.
EncodeSQL(v) ==
    IF v.ValueType = "Null" THEN nullstr
    ELSE IF IsQuoted(v.ValueType) THEN encodeBytesSQL(v.Value)
    ELSE IF v.ValueType = "Bit" THEN encodeBytesSQLBits(v.Value)
    ELSE v.Value

----------------------------------------------------------------------------
(* Value: the calls. A constructor is called, then one method on the Value *)
(* it returned.                                                            *)

NoNumber == [neg |-> FALSE, mag |-> <<>>]

\* Texts handed to the constructors, each with the integer it denotes as a
\* Go integer literal (NoNumber when it is none), whether it carries a sign
\* and whether it is a decimal float.
NumberTexts == {
    \* ""
    [text |-> <<>>, num |-> NoNumber,
     signed |-> FALSE, float |-> FALSE],
    \* "0"
    [text |-> <<48>>, num |-> [neg |-> FALSE, mag |-> <<0>>],
     signed |-> FALSE, float |-> TRUE],
    \* "1"
    [text |-> <<49>>, num |-> [neg |-> FALSE, mag |-> <<1>>],
     signed |-> FALSE, float |-> TRUE],
    \* "2"
    [text |-> <<50>>, num |-> [neg |-> FALSE, mag |-> <<2>>],
     signed |-> FALSE, float |-> TRUE],
    \* "-1"
    [text |-> <<45, 49>>, num |-> [neg |-> TRUE, mag |-> <<1>>],
     signed |-> TRUE, float |-> TRUE],
    \* "+1"
    [text |-> <<43, 49>>, num |-> [neg |-> FALSE, mag |-> <<1>>],
     signed |-> TRUE, float |-> TRUE],
    \* "-0"
    [text |-> <<45, 48>>, num |-> [neg |-> FALSE, mag |-> <<0>>],
     signed |-> TRUE, float |-> TRUE],
    \* "42"
    [text |-> <<52, 50>>, num |-> [neg |-> FALSE, mag |-> <<4, 2>>],
     signed |-> FALSE, float |-> TRUE],
    \* "010"
    [text |-> <<48, 49, 48>>, num |-> [neg |-> FALSE, mag |-> <<8>>],
     signed |-> FALSE, float |-> TRUE],
    \* "08"
    [text |-> <<48, 56>>, num |-> NoNumber,
     signed |-> FALSE, float |-> TRUE],
    \* "0x10"
    [text |-> <<48, 120, 49, 48>>, num |-> [neg |-> FALSE, mag |-> <<1, 6>>],
     signed |-> FALSE, float |-> FALSE],
    \* "0X1f"
    [text |-> <<48, 88, 49, 102>>, num |-> [neg |-> FALSE, mag |-> <<3, 1>>],
     signed |-> FALSE, float |-> FALSE],
    \* "0b11"
    [text |-> <<48, 98, 49, 49>>, num |-> [neg |-> FALSE, mag |-> <<3>>],
     signed |-> FALSE, float |-> FALSE],
    \* "0o17"
    [text |-> <<48, 111, 49, 55>>, num |-> [neg |-> FALSE, mag |-> <<1, 5>>],
     signed |-> FALSE, float |-> FALSE],
    \* "1_000"
    [text |-> <<49, 95, 48, 48, 48>>, num |-> [neg |-> FALSE, mag |-> <<1, 0, 0, 0>>],
     signed |-> FALSE, float |-> TRUE],
    \* "1_"
    [text |-> <<49, 95>>, num |-> NoNumber,
     signed |-> FALSE, float |-> FALSE],
    \* "0x"
    [text |-> <<48, 120>>, num |-> NoNumber,
     signed |-> FALSE, float |-> FALSE],
    \* "abc"
    [text |-> <<97, 98, 99>>, num |-> NoNumber,
     signed |-> FALSE, float |-> FALSE],
    \* " 1"
    [text |-> <<32, 49>>, num |-> NoNumber,
     signed |-> FALSE, float |-> FALSE],
    \* "1.5"
    [text |-> <<49, 46, 53>>, num |-> NoNumber,
     signed |-> FALSE, float |-> TRUE],
    \* "1e3"
    [text |-> <<49, 101, 51>>, num |-> NoNumber,
     signed |-> FALSE, float |-> TRUE],
    \* "-.5"
    [text |-> <<45, 46, 53>>, num |-> NoNumber,
     signed |-> TRUE, float |-> TRUE],
    \* "inf"
    [text |-> <<105, 110, 102>>, num |-> NoNumber,
     signed |-> FALSE, float |-> TRUE],
    \* "1e"
    [text |-> <<49, 101>>, num |-> NoNumber,
     signed |-> FALSE, float |-> FALSE],
    \* "9223372036854775807"
    [text |-> <<57, 50, 50, 51, 51, 55, 50, 48, 51, 54, 56, 53, 52, 55, 55, 53, 56, 48, 55>>, num |-> [neg |-> FALSE, mag |-> <<9, 2, 2, 3, 3, 7, 2, 0, 3, 6, 8, 5, 4, 7, 7, 5, 8, 0, 7>>],
     signed |-> FALSE, float |-> TRUE],
    \* "9223372036854775808"
    [text |-> <<57, 50, 50, 51, 51, 55, 50, 48, 51, 54, 56, 53, 52, 55, 55, 53, 56, 48, 56>>, num |-> [neg |-> FALSE, mag |-> <<9, 2, 2, 3, 3, 7, 2, 0, 3, 6, 8, 5, 4, 7, 7, 5, 8, 0, 8>>],
     signed |-> FALSE, float |-> TRUE],
    \* "18446744073709551615"
    [text |-> <<49, 56, 52, 52, 54, 55, 52, 52, 48, 55, 51, 55, 48, 57, 53, 53, 49, 54, 49, 53>>, num |-> [neg |-> FALSE, mag |-> <<1, 8, 4, 4, 6, 7, 4, 4, 0, 7, 3, 7, 0, 9, 5, 5, 1, 6, 1, 5>>],
     signed |-> FALSE, float |-> TRUE],
    \* "18446744073709551616"
    [text |-> <<49, 56, 52, 52, 54, 55, 52, 52, 48, 55, 51, 55, 48, 57, 53, 53, 49, 54, 49, 54>>, num |-> [neg |-> FALSE, mag |-> <<1, 8, 4, 4, 6, 7, 4, 4, 0, 7, 3, 7, 0, 9, 5, 5, 1, 6, 1, 6>>],
     signed |-> FALSE, float |-> TRUE],
    \* "+9223372036854775808"
    [text |-> <<43, 57, 50, 50, 51, 51, 55, 50, 48, 51, 54, 56, 53, 52, 55, 55, 53, 56, 48, 56>>, num |-> [neg |-> FALSE, mag |-> <<9, 2, 2, 3, 3, 7, 2, 0, 3, 6, 8, 5, 4, 7, 7, 5, 8, 0, 8>>],
     signed |-> TRUE, float |-> TRUE],
    \* "-9223372036854775808"
    [text |-> <<45, 57, 50, 50, 51, 51, 55, 50, 48, 51, 54, 56, 53, 52, 55, 55, 53, 56, 48, 56>>, num |-> [neg |-> TRUE, mag |-> <<9, 2, 2, 3, 3, 7, 2, 0, 3, 6, 8, 5, 4, 7, 7, 5, 8, 0, 8>>],
     signed |-> TRUE, float |-> TRUE],
    \* "-9223372036854775809"
    [text |-> <<45, 57, 50, 50, 51, 51, 55, 50, 48, 51, 54, 56, 53, 52, 55, 55, 53, 56, 48, 57>>, num |-> [neg |-> TRUE, mag |-> <<9, 2, 2, 3, 3, 7, 2, 0, 3, 6, 8, 5, 4, 7, 7, 5, 8, 0, 9>>],
     signed |-> TRUE, float |-> TRUE],
    \* "0x7fffffffffffffff"
    [text |-> <<48, 120, 55, 102, 102, 102, 102, 102, 102, 102, 102, 102, 102, 102, 102, 102, 102, 102>>, num |-> [neg |-> FALSE, mag |-> <<9, 2, 2, 3, 3, 7, 2, 0, 3, 6, 8, 5, 4, 7, 7, 5, 8, 0, 7>>],
     signed |-> FALSE, float |-> FALSE],
    \* "0xffffffffffffffff"
    [text |-> <<48, 120, 102, 102, 102, 102, 102, 102, 102, 102, 102, 102, 102, 102, 102, 102, 102, 102>>, num |-> [neg |-> FALSE, mag |-> <<1, 8, 4, 4, 6, 7, 4, 4, 0, 7, 3, 7, 0, 9, 5, 5, 1, 6, 1, 5>>],
     signed |-> FALSE, float |-> FALSE],
    \* "0x10000000000000000"
    [text |-> <<48, 120, 49, 48, 48, 48, 48, 48, 48, 48, 48, 48, 48, 48, 48, 48, 48, 48, 48>>, num |-> [neg |-> FALSE, mag |-> <<1, 8, 4, 4, 6, 7, 4, 4, 0, 7, 3, 7, 0, 9, 5, 5, 1, 6, 1, 6>>],
     signed |-> FALSE, float |-> FALSE]}

MaxByteTextLen == 2

\* NUL, the quote, the backslash and ctl-Z, which EncodeSQL escapes, and two
\* bytes it does not.
SampleBytes == {0, 39, 92, 26, 65, 255}
\* Every byte alone, and the sample bytes in sequences of up to MaxByteTextLen.
ByteTexts == {<<b>> : b \in 0..255} \cup SeqsUpTo(SampleBytes, MaxByteTextLen)

ValueTexts == {t.text : t \in NumberTexts}
\* The numbers an int64 or uint64 argument can hold.
Int64s == {t.num : t \in {u \in NumberTexts : u.num # NoNumber /\ ParseInt(u.text, 0).err = "nil"}}
Uint64s == {t.num : t \in {u \in NumberTexts : u.num # NoNumber /\ ParseUint(u.text, 0).err = "nil"}}
\* The texts AppendFloat renders for 0, 1.5, -0.5, 1000 and 1e+21.
Float64Texts ==
    {<<48>>, <<49, 46, 53>>, <<45, 48, 46, 53>>, <<49, 48, 48, 48>>, <<49, 101, 43, 50, 49>>}

valIdle ==
    /\ valCall = [method |-> "none", typ |-> "Null", val |-> <<>>, num |-> ZeroInt]
    /\ valRet = [v |-> NULL, err |-> "nil"]
    /\ valConv = [method |-> "none", i |-> ZeroInt, b |-> FALSE, out |-> <<>>, err |-> "nil"]

\* A constructor is called first, a method of the Value after it.
valNew == valCall.method = "none"
valMade == valCall.method # "none" /\ valConv.method = "none"

CallNewValue ==
    /\ valNew
    /\ \E typ \in MySqlTypes :
          \E val \in (IF IsQuoted(typ) \/ typ = "Bit" THEN ValueTexts \cup ByteTexts ELSE ValueTexts) :
              /\ valCall' = [method |-> "NewValue", typ |-> typ, val |-> val, num |-> ZeroInt]
              /\ valRet' = NewValue(typ, val)
    /\ UNCHANGED valConv
    /\ valOnly

CallMakeTrusted ==
    /\ valNew
    /\ \E typ \in MySqlTypes :
          \E val \in (IF IsQuoted(typ) \/ typ = "Bit" THEN ValueTexts \cup ByteTexts ELSE ValueTexts) :
              /\ valCall' = [method |-> "MakeTrusted", typ |-> typ, val |-> val, num |-> ZeroInt]
              /\ valRet' = [v |-> MakeTrusted(typ, val), err |-> "nil"]
    /\ UNCHANGED valConv
    /\ valOnly

CallNewIntegral ==
    /\ valNew
    /\ \E val \in ValueTexts :
          /\ valCall' = [method |-> "NewIntegral", typ |-> "string", val |-> val, num |-> ZeroInt]
          /\ valRet' = NewIntegral(val)
    /\ UNCHANGED valConv
    /\ valOnly

CallInterfaceToValue ==
    /\ valNew
    /\ \E gotype \in GoTypes :
          \E val \in (IF gotype \in {"[]byte", "string"} THEN ValueTexts
                      ELSE IF gotype = "float64" THEN Float64Texts ELSE {<<>>}),
             num \in (IF gotype = "int64" THEN Int64s
                      ELSE IF gotype = "uint64" THEN Uint64s ELSE {ZeroInt}) :
              /\ valCall' = [method |-> "InterfaceToValue", typ |-> gotype, val |-> val, num |-> num]
              /\ valRet' = InterfaceToValue(gotype, val, num)
    /\ UNCHANGED valConv
    /\ valOnly

CallToInt64 ==
    /\ valMade
    /\ valConv' = [method |-> "ToInt64", i |-> ToInt64(valRet.v).i, b |-> FALSE, out |-> <<>>,
                   err |-> ToInt64(valRet.v).err]
    /\ UNCHANGED <<valCall, valRet>>
    /\ valOnly

CallToUint64 ==
    /\ valMade
    /\ valConv' = [method |-> "ToUint64", i |-> ToUint64(valRet.v).i, b |-> FALSE, out |-> <<>>,
                   err |-> ToUint64(valRet.v).err]
    /\ UNCHANGED <<valCall, valRet>>
    /\ valOnly

CallToFloat64 ==
    /\ valMade
    /\ valConv' = [method |-> "ToFloat64", i |-> ZeroInt, b |-> FALSE, out |-> <<>>,
                   err |-> ToFloat64(valRet.v)]
    /\ UNCHANGED <<valCall, valRet>>
    /\ valOnly

CallToBool ==
    /\ valMade
    /\ valConv' = [method |-> "ToBool", i |-> ZeroInt, b |-> ToBool(valRet.v).b, out |-> <<>>,
                   err |-> ToBool(valRet.v).err]
    /\ UNCHANGED <<valCall, valRet>>
    /\ valOnly

CallEncodeSQL ==
    /\ valMade
    /\ valConv' = [method |-> "EncodeSQL", i |-> ZeroInt, b |-> FALSE, out |-> EncodeSQL(valRet.v),
                   err |-> "nil"]
    /\ UNCHANGED <<valCall, valRet>>
    /\ valOnly

----------------------------------------------------------------------------
(* Session: the objects a Session points to. A pointer, a map or a slice   *)
(* is the address of an object of sesHeap, 0 for nil. An object is         *)
(* [kind, ints]: ints holds the addresses of the elements for a slice of   *)
(* sessions ("sessions") and a map of variables ("varmap", -1 for a name   *)
(* that is not in the map, 0 for a nil variable), and values otherwise.    *)

MaxMutations == 2

\* The addresses the objects of s can take; Clone allocates above them.
HeapSize == 14
Addrs == 1..(2 * HeapSize)
Fresh(a) == a + HeapSize

NoObject == [kind |-> "none", ints |-> <<>>]
Object(kind, ints) == [kind |-> kind, ints |-> ints]

\* The objects of a Session all of whose fields are set.
SessionObjects ==
    (1 :> Object("sessions", <<2, 3>>)) @@ (2 :> Object("db", <<1>>))
        @@ (3 :> Object("db", <<2>>)) @@ (4 :> Object("opts", <<1>>))
        @@ (5 :> Object("strmap", <<1, 0>>)) @@ (6 :> Object("strs", <<1>>))
        @@ (7 :> Object("sessions", <<8>>)) @@ (8 :> Object("db", <<3>>))
        @@ (9 :> Object("sessions", <<10>>)) @@ (10 :> Object("db", <<4>>))
        @@ (11 :> Object("varmap", <<12, 0>>)) @@ (12 :> Object("bv", <<5>>))
        @@ (13 :> Object("strs", <<1, 2>>)) @@ (14 :> Object("db", <<5>>))

InitialHeap == [a \in Addrs |-> IF a \in DOMAIN SessionObjects THEN SessionObjects[a] ELSE NoObject]

PointerFields ==
    {"ShardSessions", "Options", "SystemVariables", "Warnings", "PreSessions", "PostSessions",
     "UserDefinedVariables", "SavePoints", "LockSession"}

\* The Session whose fields in nils are nil and whose flags are flag.
SessionWith(nils, flag) ==
    [InTransaction |-> flag, Autocommit |-> ~flag,
     ShardSessions |-> IF "ShardSessions" \in nils THEN 0 ELSE 1,
     Options |-> IF "Options" \in nils THEN 0 ELSE 4,
     TargetString |-> "@primary",
     SystemVariables |-> IF "SystemVariables" \in nils THEN 0 ELSE 5,
     TransactionMode |-> 1,
     Warnings |-> IF "Warnings" \in nils THEN 0 ELSE 6,
     PreSessions |-> IF "PreSessions" \in nils THEN 0 ELSE 7,
     PostSessions |-> IF "PostSessions" \in nils THEN 0 ELSE 9,
     LastInsertId |-> 7, FoundRows |-> 3,
     UserDefinedVariables |-> IF "UserDefinedVariables" \in nils THEN 0 ELSE 11,
     RowCount |-> 2,
     SavePoints |-> IF "SavePoints" \in nils THEN 0 ELSE 13,
     InReservedConn |-> flag,
     LockSession |-> IF "LockSession" \in nils THEN 0 ELSE 14,
     LastLockHeartbeat |-> 5, DDLStrategy |-> "direct", SessionUUID |-> "uuid",
     EnableSystemSettings |-> flag]

\* Which fields are nil in the Sessions that are cloned.
NilFieldSets ==
    {{}, {"Options"}, PointerFields \ {"Options"},
     {"ShardSessions", "Warnings", "UserDefinedVariables"},
     {"SystemVariables", "PreSessions", "PostSessions", "SavePoints", "LockSession"}}

Sessions == {SessionWith(nils, flag) : nils \in NilFieldSets, flag \in BOOLEAN}

NoSession == SessionWith(PointerFields, FALSE)

\* What a pointer leads to, the objects behind it followed.
DeepLeaf(h, a) == IF a <= 0 THEN Object("nil", <<a>>) ELSE h[a]
Deep(h, a) ==
    IF a = 0 THEN [kind |-> "nil", ints |-> <<>>, subs |-> <<>>]
    ELSE IF h[a].kind \in {"sessions", "varmap"}
    THEN [kind |-> h[a].kind, ints |-> <<>>,
          subs |-> [i \in DOMAIN h[a].ints |-> DeepLeaf(h, h[a].ints[i])]]
    ELSE [kind |-> h[a].kind, ints |-> h[a].ints, subs |-> <<>>]

ScalarsOf(s) == [f \in (DOMAIN s) \ PointerFields |-> s[f]]

\* A Session by value: its scalar fields, and what each pointer field leads to.
DeepSession(h, s) == [scalars |-> ScalarsOf(s), deep |-> [f \in PointerFields |-> Deep(h, s[f])]]

\* The addresses reachable from a Session.
Reach(h, s) ==
    LET roots == {s[f] : f \in PointerFields} \ {0}
    IN roots \cup UNION {{h[a].ints[i] : i \in DOMAIN h[a].ints} \ {-1, 0} :
                         a \in {r \in roots : h[r].kind \in {"sessions", "varmap"}}}

\* The result of a copy: the pointer returned, the objects allocated, and
\* whether the copy panicked.
Copied(ptr, objs) == [ptr |-> ptr, objs |-> objs, panic |-> FALSE]
NilCopy == Copied(0, {})
Panicked == [ptr |-> 0, objs |-> {}, panic |-> TRUE]

\* database.CopyMap and database.CopyArray: a new map or slice with the same entries.
CopyMap(h, source) ==
    IF source = 0 THEN NilCopy ELSE Copied(Fresh(source), {<<Fresh(source), h[source]>>})
CopyArray(h, source) ==
    IF source = 0 THEN NilCopy ELSE Copied(Fresh(source), {<<Fresh(source), h[source]>>})

\* DbSession.Clone and BindVariable.Clone: a new object with the same value;
\* the receiver is dereferenced.
DbSessionClone(h, source) ==
    IF source = 0 THEN Panicked ELSE Copied(Fresh(source), {<<Fresh(source), h[source]>>})
BindVariableClone(h, source) ==
    IF source = 0 THEN Panicked ELSE Copied(Fresh(source), {<<Fresh(source), h[source]>>})

\* The copies of the elements of a slice or map, put into a new object.
CopiedElements(h, source, elems) ==
    [ptr |-> Fresh(source),
     objs |-> {<<Fresh(source), Object(h[source].kind, [i \in DOMAIN elems |-> elems[i].ptr])>>}
                  \cup UNION {elems[i].objs : i \in DOMAIN elems},
     panic |-> \E i \in DOMAIN elems : elems[i].panic]

cloneUserDefinedVariablesSharing(h, source) ==
    IF source = 0 THEN NilCopy ELSE Copied(Fresh(source), {<<Fresh(source), h[source]>>})

cloneUserDefinedVariables(h, source) ==
    IF source = 0 THEN NilCopy
    ELSE CopiedElements(h, source,
             [i \in DOMAIN h[source].ints |->
                 LET variable == h[source].ints[i]
                 IN IF variable = -1 THEN Copied(-1, {})
                    ELSE IF variable = 0 THEN NilCopy
                    ELSE BindVariableClone(h, variable)])

cloneDbSession(h, source) ==
    IF source = 0 THEN NilCopy ELSE DbSessionClone(h, source)

cloneDbSessions(h, source) ==
    IF source = 0 THEN NilCopy
    ELSE CopiedElements(h, source,
             [i \in DOMAIN h[source].ints |-> DbSessionClone(h, h[source].ints[i])])

\* Session.Clone: the clone, the heap with the objects it allocated, and
\* whether it panicked (the receiver's Options is dereferenced first).
Clone(h, s) ==
    IF s.Options = 0 THEN [session |-> NoSession, heap |-> h, panic |-> TRUE]
    ELSE LET ops == Copied(Fresh(s.Options), {<<Fresh(s.Options), h[s.Options]>>})
             copies == [f \in PointerFields |->
                 CASE f = "Options" -> ops
                   [] f = "SystemVariables" -> CopyMap(h, s.SystemVariables)
                   [] f = "Warnings" -> CopyArray(h, s.Warnings)
                   [] f = "SavePoints" -> CopyArray(h, s.SavePoints)
                   [] f = "ShardSessions" -> cloneDbSessions(h, s.ShardSessions)
                   [] f = "PreSessions" -> cloneDbSessions(h, s.PreSessions)
                   [] f = "PostSessions" -> cloneDbSessions(h, s.PostSessions)
                   [] f = "UserDefinedVariables" -> cloneUserDefinedVariables(h, s.UserDefinedVariables)
                   [] f = "LockSession" -> cloneDbSession(h, s.LockSession)]
             objs == UNION {copies[f].objs : f \in PointerFields}
         IN [session |-> [f \in DOMAIN s |-> IF f \in PointerFields THEN copies[f].ptr ELSE s[f]],
             heap |-> [a \in Addrs |-> IF \E o \in objs : o[1] = a
                                       THEN (CHOOSE o \in objs : o[1] = a)[2] ELSE h[a]],
             panic |-> \E f \in PointerFields : copies[f].panic]

sesIdle ==
    /\ sesPc = "idle"
    /\ sesHeap = InitialHeap
    /\ sesS = NoSession
    /\ sesC = NoSession
    /\ sesSnap = DeepSession(InitialHeap, NoSession)
    /\ sesTouched = {}

\* s.Clone() is called.
CallClone ==
    /\ sesPc = "start"
    /\ LET r == Clone(sesHeap, sesS)
       IN IF r.panic
          THEN sesPc' = "panic" /\ UNCHANGED <<sesHeap, sesC, sesSnap>>
          ELSE /\ sesPc' = "cloned"
               /\ sesHeap' = r.heap
               /\ sesC' = r.session
               /\ sesSnap' = DeepSession(sesHeap, sesS)
    /\ UNCHANGED <<sesS, sesTouched>>
    /\ sesOnly

sesOwners == {"s", "c"}
sesOf(owner) == IF owner = "s" THEN sesS ELSE sesC
sesMayWrite == sesPc = "cloned" /\ Cardinality(sesTouched) < MaxMutations

\* The places of the objects of one kind that owner reaches.
sesPlaces(owner, kinds) ==
    {<<a, i>> \in Addrs \X (1..2) :
        /\ a \in Reach(sesHeap, sesOf(owner))
        /\ sesHeap[a].kind \in kinds
        /\ i \in DOMAIN sesHeap[a].ints}

HeapWrite(h, place, v) == [h EXCEPT ![place[1]].ints[place[2]] = v]

\* A scalar field of s or of c is assigned.
SetScalar ==
    /\ sesMayWrite
    /\ \E owner \in sesOwners :
          /\ IF owner = "s"
             THEN sesS' = [sesS EXCEPT !.LastInsertId = 99, !.Autocommit = ~@] /\ UNCHANGED sesC
             ELSE sesC' = [sesC EXCEPT !.LastInsertId = 99, !.Autocommit = ~@] /\ UNCHANGED sesS
          /\ sesTouched' = sesTouched \cup {<<owner, 0, 0>>}
    /\ UNCHANGED <<sesPc, sesHeap, sesSnap>>
    /\ sesOnly

\* A system variable of s or of c is set.
SetSystemVariable ==
    /\ sesMayWrite
    /\ \E owner \in sesOwners : \E place \in sesPlaces(owner, {"strmap"}) :
          /\ sesHeap' = HeapWrite(sesHeap, place, 9)
          /\ sesTouched' = sesTouched \cup {<<owner, place[1], place[2]>>}
    /\ UNCHANGED <<sesPc, sesS, sesC, sesSnap>>
    /\ sesOnly

\* A warning or a savepoint of s or of c is overwritten.
SetString ==
    /\ sesMayWrite
    /\ \E owner \in sesOwners : \E place \in sesPlaces(owner, {"strs"}) :
          /\ sesHeap' = HeapWrite(sesHeap, place, 9)
          /\ sesTouched' = sesTouched \cup {<<owner, place[1], place[2]>>}
    /\ UNCHANGED <<sesPc, sesS, sesC, sesSnap>>
    /\ sesOnly

\* A shard, pre, post or lock session of s or of c is changed.
SetDbSession ==
    /\ sesMayWrite
    /\ \E owner \in sesOwners : \E place \in sesPlaces(owner, {"db"}) :
          /\ sesHeap' = HeapWrite(sesHeap, place, 9)
          /\ sesTouched' = sesTouched \cup {<<owner, place[1], place[2]>>}
    /\ UNCHANGED <<sesPc, sesS, sesC, sesSnap>>
    /\ sesOnly

\* An element of a slice of sessions of s or of c is replaced by nil.
SetSessionsElement ==
    /\ sesMayWrite
    /\ \E owner \in sesOwners : \E place \in sesPlaces(owner, {"sessions"}) :
          /\ sesHeap' = HeapWrite(sesHeap, place, 0)
          /\ sesTouched' = sesTouched \cup {<<owner, place[1], place[2]>>}
    /\ UNCHANGED <<sesPc, sesS, sesC, sesSnap>>
    /\ sesOnly

\* A user-defined variable of s or of c is deleted from the map.
DeleteUserDefinedVariable ==
    /\ sesMayWrite
    /\ \E owner \in sesOwners : \E place \in sesPlaces(owner, {"varmap"}) :
          /\ sesHeap' = HeapWrite(sesHeap, place, -1)
          /\ sesTouched' = sesTouched \cup {<<owner, place[1], place[2]>>}
    /\ UNCHANGED <<sesPc, sesS, sesC, sesSnap>>
    /\ sesOnly

\* A BindVariable in the user-defined variables of s or of c is changed.
SetBindVariable ==
    /\ sesMayWrite
    /\ \E owner \in sesOwners : \E place \in sesPlaces(owner, {"bv"}) :
          /\ sesHeap' = HeapWrite(sesHeap, place, 9)
          /\ sesTouched' = sesTouched \cup {<<owner, place[1], place[2]>>}
    /\ UNCHANGED <<sesPc, sesS, sesC, sesSnap>>
    /\ sesOnly

\* The options of s or of c are changed.
SetOptions ==
    /\ sesMayWrite
    /\ \E owner \in sesOwners : \E place \in sesPlaces(owner, {"opts"}) :
          /\ sesHeap' = HeapWrite(sesHeap, place, 9)
          /\ sesTouched' = sesTouched \cup {<<owner, place[1], place[2]>>}
    /\ UNCHANGED <<sesPc, sesS, sesC, sesSnap>>
    /\ sesOnly

----------------------------------------------------------------------------
(* Value.Equals and Value.Clone. A []byte is a slice [arr, len] into one   *)
(* of the backing arrays of eqArrays; arr = "nil" is the nil slice. A     *)
(* *Value is [nil, ValueType, Value], nil being the nil pointer.           *)

MaxValueLen == 2

EqBytes == {65, 66}
EqTypes == {"Null", "Int64", "VarChar"}

NilSlice == [arr |-> "nil", len |-> 0]
NilValue == [nil |-> TRUE, ValueType |-> "Null", Value |-> NilSlice]

\* The arrays v and w point into, and the one make() returns in Clone.
ArrayOfV == "v"
ArrayOfW == "w"
ArrayOfClone == "clone"
NoArrays == [a \in {ArrayOfV, ArrayOfW, ArrayOfClone} |-> <<>>]

\* What v and w are built from: a nil pointer, or a type and a nil, an
\* empty or a longer byte slice.
EqInputs ==
    {[nil |-> TRUE, typ |-> "Null", alloc |-> FALSE, bytes |-> <<>>]}
        \cup {[nil |-> FALSE, typ |-> t, alloc |-> FALSE, bytes |-> <<>>] : t \in EqTypes}
        \cup {[nil |-> FALSE, typ |-> t, alloc |-> TRUE, bytes |-> b] :
                 t \in EqTypes, b \in SeqsUpTo(EqBytes, MaxValueLen)}

ValueAt(in, arr) ==
    IF in.nil THEN NilValue
    ELSE [nil |-> FALSE, ValueType |-> in.typ,
          Value |-> IF in.alloc THEN [arr |-> arr, len |-> Len(in.bytes)] ELSE NilSlice]

\* The bytes a slice holds.
BytesOf(arrays, slice) == IF slice.arr = "nil" THEN <<>> ELSE SubSeq(arrays[slice.arr], 1, slice.len)

\* bytes.Equal: same length and same bytes; a nil slice equals an empty one.
BytesEqual(arrays, a, b) == BytesOf(arrays, a) = BytesOf(arrays, b)

\* v.Equals(value) for a value that is a *Value; both pointers are dereferenced.
Equals(arrays, v, vv) ==
    IF v.nil \/ vv.nil THEN "panic"
    ELSE IF v.ValueType = vv.ValueType /\ BytesEqual(arrays, v.Value, vv.Value) THEN "true"
    ELSE "false"

ValueCloneSharing(arrays, v) == [c |-> v, arrays |-> arrays]

\* v.Clone(): the clone, and the arrays with the one it allocated.
ValueClone(arrays, v) ==
    IF v.nil THEN [c |-> NilValue, arrays |-> arrays]
    ELSE IF v.Value.arr # "nil"
    THEN [c |-> [nil |-> FALSE, ValueType |-> v.ValueType,
                 Value |-> [arr |-> ArrayOfClone, len |-> v.Value.len]],
          arrays |-> [arrays EXCEPT ![ArrayOfClone] = BytesOf(arrays, v.Value)]]
    ELSE [c |-> [nil |-> FALSE, ValueType |-> v.ValueType, Value |-> NilSlice], arrays |-> arrays]

eqIdle ==
    /\ eqPc = "idle"
    /\ eqArrays = NoArrays
    /\ eqV = NilValue
    /\ eqW = NilValue
    /\ eqC = NilValue
    /\ eqRet = "none"
    /\ eqIn = [v |-> CHOOSE in \in EqInputs : in.nil, w |-> CHOOSE in \in EqInputs : in.nil]

\* v.Equals(w) is called.
CallEquals ==
    /\ eqPc = "start"
    /\ eqRet' = Equals(eqArrays, eqV, eqW)
    /\ eqPc' = IF eqRet' = "panic" THEN "panic" ELSE "compared"
    /\ UNCHANGED <<eqArrays, eqV, eqW, eqC, eqIn>>
    /\ eqOnly

\* c = v.Clone() is called.
CallValueClone ==
    /\ eqPc \in {"start", "compared"}
    /\ LET r == ValueClone(eqArrays, eqV)
       IN eqC' = r.c /\ eqArrays' = r.arrays
    /\ eqPc' = "cloned"
    /\ UNCHANGED <<eqV, eqW, eqRet, eqIn>>
    /\ eqOnly

\* c.Value[i] = b, for a byte b the clone does not hold there.
WriteCloneByte ==
    /\ eqPc = "cloned"
    /\ ~eqC.nil
    /\ \E i \in 1..eqC.Value.len : \E b \in EqBytes :
          /\ eqArrays[eqC.Value.arr][i] # b
          /\ eqArrays' = [eqArrays EXCEPT ![eqC.Value.arr][i] = b]
    /\ eqPc' = "written"
    /\ UNCHANGED <<eqV, eqW, eqC, eqRet, eqIn>>
    /\ eqOnly

----------------------------------------------------------------------------
(* service.ModifyNamespace *)

MaxProxies == 2

NamespaceNames == {"ns1", "ns2"}

\* The stores before the call: a namespace is created or modified.
NamespaceStores == [NamespaceNames -> {"none", "old"}]

mnIdle ==
    /\ mnPc = "idle"
    /\ mnNamespace = "ns1"
    /\ mnProxies = 0
    /\ mnIdx = 0
    /\ mnStore = [n \in NamespaceNames |-> "none"]
    /\ mnPrepared = {}
    /\ mnCommitted = {}
    /\ mnSteps = <<>>
    /\ mnErr = "none"

mnStep(step, proxy, ok) == mnSteps' = Append(mnSteps, [step |-> step, proxy |-> proxy, ok |-> ok])

mnReturn(e) ==
    /\ mnErr' = e
    /\ mnPc' = "done"

\* namespace.Verify()
ModifyNamespaceVerify ==
    /\ mnPc = "verify"
    /\ \/ /\ mnStep("verify", 0, TRUE)
          /\ mnPc' = "encrypt"
          /\ UNCHANGED mnErr
       \/ /\ mnStep("verify", 0, FALSE)
          /\ mnReturn("verify namespace error")
    /\ UNCHANGED <<mnNamespace, mnProxies, mnIdx, mnStore, mnPrepared, mnCommitted>>
    /\ mnOnly

\* namespace.Encrypt(cfg.EncryptKey)
ModifyNamespaceEncrypt ==
    /\ mnPc = "encrypt"
    /\ \/ /\ mnStep("encrypt", 0, TRUE)
          /\ mnPc' = "update"
          /\ UNCHANGED mnErr
       \/ /\ mnStep("encrypt", 0, FALSE)
          /\ mnReturn("encrypt namespace error")
    /\ UNCHANGED <<mnNamespace, mnProxies, mnIdx, mnStore, mnPrepared, mnCommitted>>
    /\ mnOnly

\* storeConn.UpdateNamespace(namespace)
ModifyNamespaceUpdate ==
    /\ mnPc = "update"
    /\ \/ /\ mnStep("update", 0, TRUE)
          /\ mnStore' = [mnStore EXCEPT ![mnNamespace] = "new"]
          /\ mnPc' = "list"
          /\ UNCHANGED mnErr
       \/ /\ mnStep("update", 0, FALSE)
          /\ mnReturn("update error")
          /\ UNCHANGED mnStore
    /\ UNCHANGED <<mnNamespace, mnProxies, mnIdx, mnPrepared, mnCommitted>>
    /\ mnOnly

\* proxies, err := storeConn.ListProxyMonitorMetrics()
ModifyNamespaceList ==
    /\ mnPc = "list"
    /\ \/ /\ mnStep("list", 0, TRUE)
          /\ \E n \in 0..MaxProxies : mnProxies' = n
          /\ mnIdx' = 1
          /\ mnPc' = "prepare"
          /\ UNCHANGED mnErr
       \/ /\ mnStep("list", 0, FALSE)
          /\ mnReturn("list error")
          /\ UNCHANGED <<mnProxies, mnIdx>>
    /\ UNCHANGED <<mnNamespace, mnStore, mnPrepared, mnCommitted>>
    /\ mnOnly

\* Mutant of the prepare phase: a proxy whose PrepareConfig failed is skipped.
ModifyNamespacePrepareSkipsFailure ==
    /\ mnPc = "prepare"
    /\ IF mnIdx <= mnProxies
       THEN /\ \/ mnStep("prepare", mnIdx, TRUE) /\ mnPrepared' = mnPrepared \cup {mnIdx}
               \/ mnStep("prepare", mnIdx, FALSE) /\ UNCHANGED mnPrepared
            /\ mnIdx' = mnIdx + 1
            /\ UNCHANGED <<mnPc, mnErr>>
       ELSE /\ mnPc' = "commit"
            /\ mnIdx' = 1
            /\ UNCHANGED <<mnSteps, mnPrepared, mnErr>>
    /\ UNCHANGED <<mnNamespace, mnProxies, mnStore, mnCommitted>>
    /\ mnOnly

\* The prepare phase: proxy.PrepareConfig on the next proxy, or the end of
\* the loop.
ModifyNamespacePrepare ==
    /\ mnPc = "prepare"
    /\ IF mnIdx <= mnProxies
       THEN \/ /\ mnStep("prepare", mnIdx, TRUE)
               /\ mnPrepared' = mnPrepared \cup {mnIdx}
               /\ mnIdx' = mnIdx + 1
               /\ UNCHANGED <<mnPc, mnErr>>
            \/ /\ mnStep("prepare", mnIdx, FALSE)
               /\ mnReturn("prepare error")
               /\ UNCHANGED <<mnIdx, mnPrepared>>
       ELSE /\ mnPc' = "commit"
            /\ mnIdx' = 1
            /\ UNCHANGED <<mnSteps, mnPrepared, mnErr>>
    /\ UNCHANGED <<mnNamespace, mnProxies, mnStore, mnCommitted>>
    /\ mnOnly

\* The commit phase: proxy.CommitConfig on the next proxy, or return nil.
ModifyNamespaceCommit ==
    /\ mnPc = "commit"
    /\ IF mnIdx <= mnProxies
       THEN \/ /\ mnStep("commit", mnIdx, TRUE)
               /\ mnCommitted' = mnCommitted \cup {mnIdx}
               /\ mnIdx' = mnIdx + 1
               /\ UNCHANGED <<mnPc, mnErr>>
            \/ /\ mnStep("commit", mnIdx, FALSE)
               /\ mnReturn("commit error")
               /\ UNCHANGED <<mnIdx, mnCommitted>>
       ELSE /\ mnReturn("nil")
            /\ UNCHANGED <<mnSteps, mnIdx, mnCommitted>>
    /\ UNCHANGED <<mnNamespace, mnProxies, mnStore, mnPrepared>>
    /\ mnOnly

----------------------------------------------------------------------------
(* service.QueryNamespace *)

MaxNames == 2

\* What mConn.LoadNamespace returns for a name: the namespace, nil without
\* an error (the name is not in the store), or an error.
LoadOutcomes == {"found", "missing", "error"}

qnIdle ==
    /\ qnPc = "idle"
    /\ qnNames = <<>>
    /\ qnStore = [n \in NamespaceNames |-> "missing"]
    /\ qnIdx = 0
    /\ qnData = <<>>
    /\ qnRet = [data |-> <<>>, err |-> "none"]

qnReturn(data, err) ==
    /\ qnRet' = [data |-> data, err |-> err]
    /\ qnPc' = "done"

\* One iteration of the loop over names: LoadNamespace, then return nil and
\* the error, return data and nil, or append; after the loop return data.
QueryNamespaceLoad ==
    /\ qnPc = "load"
    /\ IF qnIdx <= Len(qnNames)
       THEN LET v == qnNames[qnIdx]
            IN  CASE qnStore[v] = "error" -> qnReturn(<<>>, "load error") /\ UNCHANGED <<qnIdx, qnData>>
                  [] qnStore[v] = "missing" -> qnReturn(qnData, "nil") /\ UNCHANGED <<qnIdx, qnData>>
                  [] qnStore[v] = "found" ->
                        /\ qnData' = Append(qnData, v)
                        /\ qnIdx' = qnIdx + 1
                        /\ UNCHANGED <<qnPc, qnRet>>
       ELSE qnReturn(qnData, "nil") /\ UNCHANGED <<qnIdx, qnData>>
    /\ UNCHANGED <<qnNames, qnStore>>
    /\ qnOnly

----------------------------------------------------------------------------
(* service.SQLFingerprint and service.ProxyConfigFingerprint: the calling  *)
(* goroutine and one goroutine per proxy, which share wg and respC.        *)

FingerprintOps == {"SQLFingerprint", "ProxyConfigFingerprint"}

NoGoroutine == [pc |-> "none", ok |-> FALSE, sent |-> 0]

fpIdle ==
    /\ fpOp = "none"
    /\ fpPc = "idle"
    /\ fpProxies = 0
    /\ fpIdx = 0
    /\ fpWg = 0
    /\ fpG = [i \in 1..MaxProxies |-> NoGoroutine]
    /\ fpChan = <<>>
    /\ fpCap = 0
    /\ fpClosed = FALSE
    /\ fpResult = {}
    /\ fpRet = "none"
    /\ fpFault = "none"

respCUnbuffered(n) == 0

\* make(chan ..., len(proxies))
respCCapacity(n) == n

\* What the goroutine of proxy i sends: r, nil when the query of
\* SQLFingerprint failed, and the map m with the md5 of its host, "" when
\* the query of ProxyConfigFingerprint failed.
FingerprintResponse(op, i, ok) ==
    IF op = "SQLFingerprint"
    THEN [proxy |-> i, isNil |-> ~ok, value |-> IF ok THEN "fingerprints" ELSE ""]
    ELSE [proxy |-> i, isNil |-> FALSE, value |-> IF ok THEN "md5" ELSE ""]

\* The body of the loop over respC: a nil response is skipped, the entries
\* of another are put into the result.
FingerprintMerge(result, resp) ==
    IF resp.isNil THEN result
    ELSE {e \in result : e.proxy # resp.proxy} \cup {[proxy |-> resp.proxy, value |-> resp.value]}

\* proxies, err := mConn.ListProxyMonitorMetrics(), then the make of respC.
FingerprintList ==
    /\ fpPc = "list"
    /\ \/ /\ \E n \in 0..MaxProxies : fpProxies' = n /\ fpCap' = respCCapacity(n)
          /\ fpIdx' = 1
          /\ fpPc' = "spawn"
          /\ UNCHANGED fpRet
       \/ /\ fpRet' = "list error"
          /\ fpPc' = "done"
          /\ UNCHANGED <<fpProxies, fpCap, fpIdx>>
    /\ UNCHANGED <<fpOp, fpWg, fpG, fpChan, fpClosed, fpResult, fpFault>>
    /\ fpOnly

\* One iteration of the loop over proxies: wg.Add(1) and the go statement.
FingerprintGo ==
    /\ fpPc = "spawn"
    /\ IF fpIdx <= fpProxies
       THEN /\ fpWg' = fpWg + 1
            /\ fpG' = [fpG EXCEPT ![fpIdx].pc = "query"]
            /\ fpIdx' = fpIdx + 1
            /\ UNCHANGED fpPc
       ELSE /\ fpPc' = "wait"
            /\ UNCHANGED <<fpWg, fpG, fpIdx>>
    /\ UNCHANGED <<fpOp, fpProxies, fpChan, fpCap, fpClosed, fpResult, fpRet, fpFault>>
    /\ fpOnly

\* wg.Wait() returns when the counter is zero.
FingerprintWait ==
    /\ fpPc = "wait"
    /\ fpWg = 0
    /\ fpPc' = "close"
    /\ UNCHANGED <<fpOp, fpProxies, fpIdx, fpWg, fpG, fpChan, fpCap, fpClosed, fpResult, fpRet, fpFault>>
    /\ fpOnly

\* close(respC)
FingerprintClose ==
    /\ fpPc = "close"
    /\ IF fpClosed
       THEN fpFault' = "close of closed channel" /\ fpPc' = "panic" /\ UNCHANGED fpClosed
       ELSE fpClosed' = TRUE /\ fpPc' = "range" /\ UNCHANGED fpFault
    /\ UNCHANGED <<fpOp, fpProxies, fpIdx, fpWg, fpG, fpChan, fpCap, fpResult, fpRet>>
    /\ fpOnly

\* for r := range respC: the next response is merged, or the loop ends
\* because respC is closed and empty, and the function returns.
FingerprintRange ==
    /\ fpPc = "range"
    /\ fpChan # <<>> \/ fpClosed
    /\ IF fpChan # <<>>
       THEN /\ fpResult' = FingerprintMerge(fpResult, Head(fpChan))
            /\ fpChan' = Tail(fpChan)
            /\ UNCHANGED <<fpPc, fpRet>>
       ELSE /\ fpRet' = "nil"
            /\ fpPc' = "done"
            /\ UNCHANGED <<fpResult, fpChan>>
    /\ UNCHANGED <<fpOp, fpProxies, fpIdx, fpWg, fpG, fpCap, fpClosed, fpFault>>
    /\ fpOnly

\* The goroutine of a proxy: the query, which succeeds or fails.
GoQuery ==
    /\ fpFault = "none"
    /\ \E i \in 1..MaxProxies :
          /\ fpG[i].pc = "query"
          /\ \E ok \in BOOLEAN : fpG' = [fpG EXCEPT ![i].pc = "send", ![i].ok = ok]
    /\ UNCHANGED <<fpOp, fpPc, fpProxies, fpIdx, fpWg, fpChan, fpCap, fpClosed, fpResult, fpRet, fpFault>>
    /\ fpOnly

\* The goroutine of a proxy: respC <- r. The send waits while the buffer is
\* full, and panics on a closed channel.
GoSend ==
    /\ fpFault = "none"
    /\ \E i \in 1..MaxProxies :
          /\ fpG[i].pc = "send"
          /\ fpClosed \/ Len(fpChan) < fpCap
          /\ IF fpClosed
             THEN /\ fpFault' = "send on closed channel"
                  /\ fpG' = [fpG EXCEPT ![i].pc = "panic"]
                  /\ UNCHANGED fpChan
             ELSE /\ fpChan' = Append(fpChan, FingerprintResponse(fpOp, i, fpG[i].ok))
                  /\ fpG' = [fpG EXCEPT ![i].pc = "sent", ![i].sent = @ + 1]
                  /\ UNCHANGED fpFault
    /\ UNCHANGED <<fpOp, fpPc, fpProxies, fpIdx, fpWg, fpCap, fpClosed, fpResult, fpRet>>
    /\ fpOnly

\* The goroutine of a proxy: the deferred wg.Done().
GoDone ==
    /\ fpFault = "none"
    /\ \E i \in 1..MaxProxies :
          /\ fpG[i].pc = "sent"
          /\ fpG' = [fpG EXCEPT ![i].pc = "done"]
          /\ fpWg' = fpWg - 1
    /\ UNCHANGED <<fpOp, fpPc, fpProxies, fpIdx, fpChan, fpCap, fpClosed, fpResult, fpRet, fpFault>>
    /\ fpOnly

----------------------------------------------------------------------------
(* Two GenerateSql calls that run concurrently on the same SqlExplain,     *)
(* each in its own goroutine with its own bind variables.                  *)

Callers == {1, 2}

cgIdle ==
    /\ cgPc = [c \in Callers |-> "idle"]
    /\ cgArgs = [c \in Callers |-> [defaultDataSource |-> 0, bindVariables |-> 0]]
    /\ cgValues = [c \in Callers |-> [ds |-> 1, tables |-> <<>>]]
    /\ cgRuntime = [c \in Callers |-> NilRuntime]
    /\ cgExplVars = 0
    /\ cgResult = [c \in Callers |-> NilResult]
    /\ cgRet = [c \in Callers |-> [result |-> NilResult, err |-> "none"]]

cgReturn(c, result, err) ==
    /\ cgRet' = [cgRet EXCEPT ![c] = [result |-> result, err |-> err]]
    /\ cgPc' = [cgPc EXCEPT ![c] = "done"]

\* values, vErr := expl.RestoreShardingValues(bindVariables), and the branch
\* on len(values) == 0, in one of the calls.
CallerValues ==
    \E c \in Callers :
       /\ cgPc[c] = "values"
       /\ \/ cgReturn(c, NilResult, "error") /\ UNCHANGED cgValues
          \/ \E values \in ShardingValues :
                /\ cgValues' = [cgValues EXCEPT ![c] = values]
                /\ IF ValuesLen(values) = 0
                   THEN cgReturn(c, [Usage |-> UsageRaw, Commands |-> <<>>], "nil")
                   ELSE cgPc' = [cgPc EXCEPT ![c] = "runtime"] /\ UNCHANGED cgRet
       /\ UNCHANGED <<cgArgs, cgRuntime, cgExplVars, cgResult>>
       /\ cgOnly

\* runtime, err := NewRuntime(defaultDataSource, expl, values, bindVariables)
CallerNewRuntime ==
    \E c \in Callers :
       /\ cgPc[c] = "runtime"
       /\ \/ /\ cgRuntime' = [cgRuntime EXCEPT ![c] =
                    NewRuntime(cgArgs[c].defaultDataSource, cgValues[c], cgArgs[c].bindVariables)]
             /\ cgPc' = [cgPc EXCEPT ![c] = "setVars"]
             /\ UNCHANGED cgRet
          \/ cgReturn(c, NilResult, "error") /\ UNCHANGED cgRuntime
       /\ UNCHANGED <<cgArgs, cgValues, cgExplVars, cgResult>>
       /\ cgOnly

\* err = expl.SetVars(bindVariables) on the shared explain, then the entry
\* of gen.
CallerSetVars ==
    \E c \in Callers :
       /\ cgPc[c] = "setVars"
       /\ \/ /\ cgExplVars' = cgArgs[c].bindVariables
             /\ cgResult' = [cgResult EXCEPT ![c] = [Usage |-> UsageShard, Commands |-> <<>>]]
             /\ cgPc' = [cgPc EXCEPT ![c] = "gen"]
             /\ UNCHANGED cgRet
          \/ cgReturn(c, NilResult, "error") /\ UNCHANGED <<cgExplVars, cgResult>>
       /\ UNCHANGED <<cgArgs, cgValues, cgRuntime>>
       /\ cgOnly

\* One iteration of the loop of gen in one of the calls.
CallerGen ==
    \E c \in Callers :
       /\ cgPc[c] = "gen"
       /\ IF runtimeHasNext(cgValues[c], cgRuntime[c])
          THEN LET rt == runtimeNext(cgValues[c], cgRuntime[c])
               IN  /\ cgRuntime' = [cgRuntime EXCEPT ![c] = rt]
                   /\ \/ /\ cgResult' = [cgResult EXCEPT ![c] = genAppend(@,
                                ScatterCommand(rt, RestoreSql(cgExplVars, cgValues[c], rt)))]
                         /\ UNCHANGED <<cgPc, cgRet>>
                      \/ /\ cgReturn(c, NilResult, "error")
                         /\ UNCHANGED cgResult
          ELSE /\ cgRuntime' = [cgRuntime EXCEPT ![c] = runtimeNext(cgValues[c], @)]
               /\ cgReturn(c, cgResult[c], "nil")
               /\ UNCHANGED cgResult
       /\ UNCHANGED <<cgArgs, cgValues, cgExplVars>>
       /\ cgOnly

----------------------------------------------------------------------------
(* The ClientConn specification. *)

ccIdle ==
    /\ ccPc = "idle"
    /\ ccOp = "none"
    /\ ccStatus = 0
    /\ ccR = NoResultset
    /\ ccS = NoStmt
    /\ ccIdx = 0
    /\ ccOut = <<>>
    /\ ccErr = "nil"
    /\ ccBuffering = FALSE

InitConn == ccIdle /\ genIdle /\ rwIdle /\ hsIdle /\ valIdle /\ sesIdle /\ eqIdle /\ mnIdle /\ qnIdle /\ fpIdle /\ cgIdle

NextConn ==
    \/ writeErrorPacket
    \/ writeResultsetStart
    \/ writeResultsetColumnCount
    \/ writeFieldListColumn
    \/ writeFieldListEOF
    \/ writeResultsetRow
    \/ writeResultsetEOF
    \/ writeResultsetFlush
    \/ writePrepareResponseStart
    \/ writePrepareResponseHeader
    \/ writePrepareResponseParam
    \/ writePrepareResponseParamEOF
    \/ writePrepareResponseNoParams
    \/ writePrepareResponseColumn
    \/ writePrepareResponseColumnEOF
    \/ writePrepareResponseNoColumns

SpecConn == InitConn /\ [][NextConn]_vars

----------------------------------------------------------------------------
(* The SQL generation specification. *)

InitGen == ccIdle /\ genIdle /\ rwIdle /\ hsIdle /\ valIdle /\ sesIdle /\ eqIdle /\ mnIdle /\ qnIdle /\ fpIdle /\ cgIdle

NextGen ==
    \/ GenerateSql
    \/ GenerateSqlValues
    \/ GenerateSqlNewRuntime
    \/ GenerateSqlSetVars
    \/ gen

SpecGen == InitGen /\ [][NextGen]_vars

\* GenerateSql runs in one goroutine that is never starved: a step that can
\* be taken is taken.
SpecGenFair == SpecGen /\ WF_vars(NextGen)

----------------------------------------------------------------------------
(* The rewriting specification. *)

InitRewrite == ccIdle /\ genIdle /\ rwIdle /\ hsIdle /\ valIdle /\ sesIdle /\ eqIdle /\ mnIdle /\ qnIdle /\ fpIdle /\ cgIdle

NextRewrite ==
    \/ CallRewriteTable
    \/ CallRewriteField
    \/ CallRewriteColumn
    \/ CallRewritePatterIn
    \/ CallRewriteBetween
    \/ CallRewriteLimit

SpecRewrite == InitRewrite /\ [][NextRewrite]_vars

----------------------------------------------------------------------------
(* The specification of the handshake and of the ephemeral writers. *)

InitHandshake == ccIdle /\ genIdle /\ rwIdle /\ hsIdle /\ valIdle /\ sesIdle /\ eqIdle /\ mnIdle /\ qnIdle /\ fpIdle /\ cgIdle

NextHandshake ==
    \/ CallWriteInitialHandshake
    \/ CallWriteInitialHandshakeV10
    \/ CallReadHandshakeResponse
    \/ CallReadMalformedHandshakeResponse
    \/ CallWriteColumnDefinition
    \/ CallWritePrepareResponseHeader
    \/ CallWriteColumnCount
    \/ CallWriteRow
    \/ CallWriteMoreDataFlag
    \/ CallWriteAuthSwitchRequest

SpecHandshake == InitHandshake /\ [][NextHandshake]_vars

----------------------------------------------------------------------------
(* The specification of the Value codec. *)

InitValue == ccIdle /\ genIdle /\ rwIdle /\ hsIdle /\ valIdle /\ sesIdle /\ eqIdle /\ mnIdle /\ qnIdle /\ fpIdle /\ cgIdle

NextValue ==
    \/ CallNewValue
    \/ CallMakeTrusted
    \/ CallNewIntegral
    \/ CallInterfaceToValue
    \/ CallToInt64
    \/ CallToUint64
    \/ CallToFloat64
    \/ CallToBool
    \/ CallEncodeSQL

SpecValue == InitValue /\ [][NextValue]_vars

----------------------------------------------------------------------------
(* The Session specification: a Session is cloned, then s and c are        *)
(* written.                                                                *)

InitSession ==
    /\ ccIdle /\ genIdle /\ rwIdle /\ hsIdle /\ valIdle /\ eqIdle /\ mnIdle /\ qnIdle /\ fpIdle /\ cgIdle
    /\ sesPc = "start"
    /\ sesHeap = InitialHeap
    /\ sesS \in Sessions
    /\ sesC = NoSession
    /\ sesSnap = DeepSession(InitialHeap, NoSession)
    /\ sesTouched = {}

NextSession ==
    \/ CallClone
    \/ SetScalar
    \/ SetSystemVariable
    \/ SetString
    \/ SetDbSession
    \/ SetSessionsElement
    \/ DeleteUserDefinedVariable
    \/ SetBindVariable
    \/ SetOptions

SpecSession == InitSession /\ [][NextSession]_vars

----------------------------------------------------------------------------
(* The Value.Equals and Value.Clone specification. *)

InitEquals ==
    /\ ccIdle /\ genIdle /\ rwIdle /\ hsIdle /\ valIdle /\ sesIdle /\ mnIdle /\ qnIdle /\ fpIdle /\ cgIdle
    /\ eqPc = "start"
    /\ eqIn \in [v : EqInputs, w : EqInputs]
    /\ eqArrays = [NoArrays EXCEPT ![ArrayOfV] = eqIn.v.bytes, ![ArrayOfW] = eqIn.w.bytes]
    /\ eqV = ValueAt(eqIn.v, ArrayOfV)
    /\ eqW = ValueAt(eqIn.w, ArrayOfW)
    /\ eqC = NilValue
    /\ eqRet = "none"

NextEquals ==
    \/ CallEquals
    \/ CallValueClone
    \/ WriteCloneByte

SpecEquals == InitEquals /\ [][NextEquals]_vars

----------------------------------------------------------------------------
(* The ModifyNamespace specification. *)

InitModify ==
    /\ ccIdle /\ genIdle /\ rwIdle /\ hsIdle /\ valIdle /\ sesIdle /\ eqIdle /\ qnIdle /\ fpIdle /\ cgIdle
    /\ mnPc = "verify"
    /\ mnNamespace \in NamespaceNames
    /\ mnProxies = 0
    /\ mnIdx = 0
    /\ mnStore \in NamespaceStores
    /\ mnPrepared = {}
    /\ mnCommitted = {}
    /\ mnSteps = <<>>
    /\ mnErr = "none"

NextModify ==
    \/ ModifyNamespaceVerify
    \/ ModifyNamespaceEncrypt
    \/ ModifyNamespaceUpdate
    \/ ModifyNamespaceList
    \/ ModifyNamespacePrepare
    \/ ModifyNamespaceCommit

SpecModify == InitModify /\ [][NextModify]_vars

----------------------------------------------------------------------------
(* The QueryNamespace specification. *)

InitQuery ==
    /\ ccIdle /\ genIdle /\ rwIdle /\ hsIdle /\ valIdle /\ sesIdle /\ eqIdle /\ mnIdle /\ fpIdle /\ cgIdle
    /\ qnPc = "load"
    /\ qnNames \in SeqsUpTo(NamespaceNames, MaxNames)
    /\ qnStore \in [NamespaceNames -> LoadOutcomes]
    /\ qnIdx = 1
    /\ qnData = <<>>
    /\ qnRet = [data |-> <<>>, err |-> "none"]

NextQuery == QueryNamespaceLoad

SpecQuery == InitQuery /\ [][NextQuery]_vars

----------------------------------------------------------------------------
(* The fingerprint specification. *)

InitFingerprint ==
    /\ ccIdle /\ genIdle /\ rwIdle /\ hsIdle /\ valIdle /\ sesIdle /\ eqIdle /\ mnIdle /\ qnIdle /\ cgIdle
    /\ fpOp \in FingerprintOps
    /\ fpPc = "list"
    /\ fpProxies = 0
    /\ fpIdx = 0
    /\ fpWg = 0
    /\ fpG = [i \in 1..MaxProxies |-> NoGoroutine]
    /\ fpChan = <<>>
    /\ fpCap = 0
    /\ fpClosed = FALSE
    /\ fpResult = {}
    /\ fpRet = "none"
    /\ fpFault = "none"

NextFingerprint ==
    \/ FingerprintList
    \/ FingerprintGo
    \/ FingerprintWait
    \/ FingerprintClose
    \/ FingerprintRange
    \/ GoQuery
    \/ GoSend
    \/ GoDone

SpecFingerprint == InitFingerprint /\ [][NextFingerprint]_vars

\* The scheduler runs every goroutine that can take a step.
SpecFingerprintFair == SpecFingerprint /\ WF_vars(NextFingerprint)

----------------------------------------------------------------------------
(* The specification of two concurrent GenerateSql calls. *)

InitConcurrent ==
    /\ ccIdle /\ genIdle /\ rwIdle /\ hsIdle /\ valIdle /\ sesIdle /\ eqIdle /\ mnIdle /\ qnIdle /\ fpIdle
    /\ cgPc = [c \in Callers |-> "values"]
    /\ \E d \in DataSources :
          cgArgs = [c \in Callers |-> [defaultDataSource |-> d, bindVariables |-> c]]
    /\ cgValues = [c \in Callers |-> [ds |-> 1, tables |-> <<>>]]
    /\ cgRuntime = [c \in Callers |-> NilRuntime]
    /\ cgExplVars = 0
    /\ cgResult = [c \in Callers |-> NilResult]
    /\ cgRet = [c \in Callers |-> [result |-> NilResult, err |-> "none"]]

NextConcurrent ==
    \/ CallerValues
    \/ CallerNewRuntime
    \/ CallerSetVars
    \/ CallerGen

SpecConcurrent == InitConcurrent /\ [][NextConcurrent]_vars

----------------------------------------------------------------------------
(* Claims about the ClientConn writers (checked under SpecConn). *)

ccReturned(op) == ccOp = op /\ ccPc = "done"

\* The packets of a result set in protocol order.
ResultsetPackets(st, rs) ==
    <<ColumnCountPacket(Len(rs.Fields))>>
    \o [i \in 1..Len(rs.Fields) |-> ColumnDefinitionPacket(rs.Fields[i])]
    \o <<EOFPacket(st)>>
    \o [i \in 1..Len(rs.RowDatas) |-> RowPacket(rs.RowDatas[i])]
    \o <<EOFPacket(st)>>
    \o <<FlushMark>>

\* C1: a fully successful writeResultset for N fields and M rows has sent, in
\* this order and nothing else: the column count N, the N column definitions in
\* field order, an EOF, the M rows in row order, the final EOF, and one flush
\* after it.
C1_ResultsetPacketOrder ==
    (ccReturned("writeResultset") /\ ccErr = "nil")
        => ccOut = ResultsetPackets(ccStatus, ccR)

C1_Witness ==
    /\ ccReturned("writeResultset")
    /\ ccErr = "nil"
    /\ Len(ccR.Fields) = 2
    /\ ccR.Fields[1] # ccR.Fields[2]
    /\ Len(ccR.RowDatas) = 2
    /\ ccR.RowDatas[1] # ccR.RowDatas[2]

\* C2 as stated: whenever a step of writeResultset fails, an ERR packet has
\* been sent to the client for that result set.
C2_ErrPacketOnFailure ==
    (ccReturned("writeResultset") /\ ccErr # "nil")
        => \E i \in 1..Len(ccOut) : ccOut[i].kind = "ERR"

\* C2 amended: whenever a step of writeResultset fails, writeResultset returns
\* that error to its caller and has itself sent no ERR packet.
C2_FailureReturnsErrorWithoutErrPacket ==
    (ccOp = "writeResultset" /\ ccErr # "nil")
        => /\ ccPc = "done"
           /\ \A i \in 1..Len(ccOut) : ccOut[i].kind # "ERR"

C2_Witness ==
    /\ ccReturned("writeResultset")
    /\ ccErr = "io"
    /\ Len(ccOut) = 3
    /\ ccOut[3].kind = "Row"
    /\ Len(ccR.RowDatas) = 2

\* C22: when a step of writeResultset has failed, what was sent is the
\* successful sequence up to the failing step, with no packet after it and
\* no flush, and writeResultset has returned the error of that step.
C22_FailureStopsTheStream ==
    (ccOp = "writeResultset" /\ ccErr # "nil")
        => /\ ccPc = "done"
           /\ ccErr = "io"
           /\ \E n \in 0..(Len(ResultsetPackets(ccStatus, ccR)) - 1) :
                 ccOut = SubSeq(ResultsetPackets(ccStatus, ccR), 1, n)

\* The EOF after two column definitions failed, with rows still to send.
C22_Witness ==
    /\ ccReturned("writeResultset")
    /\ ccErr = "io"
    /\ Len(ccR.Fields) = 2
    /\ Len(ccR.RowDatas) >= 1
    /\ Len(ccOut) = 3
    /\ ccOut[3].kind = "ColumnDefinition"

\* The packets of a prepare response: the header, the parameter block and the
\* result column block, each block present exactly when its count is not zero.
PrepareBlock(n, field, st) ==
    IF n > 0 THEN [i \in 1..n |-> ColumnDefinitionPacket(field)] \o <<EOFPacket(st)>>
    ELSE <<>>

PreparePackets(st, stmt) ==
    <<PrepareHeaderPacket(stmt)>>
    \o PrepareBlock(stmt.paramCount, ParamField, st)
    \o PrepareBlock(stmt.columnCount, ColumnField, st)

\* C3 as stated: a successful writePrepareResponse has sent the header, then
\* the paramCount parameter definitions and an EOF, then the columnCount column
\* definitions and an EOF, a block being left out exactly when its own count is
\* zero.
C3_PrepareResponseBlocks ==
    (ccReturned("writePrepareResponse") /\ ccErr = "nil")
        => ccOut = PreparePackets(ccStatus, ccS)

----------------------------------------------------------------------------
(* Claims about the SQL generation (checked under SpecGen). *)

genDone == genPc = "done"

genLogged(call) == \E i \in 1..Len(genCalls) : genCalls[i] = call

\* The destination coordinates of the sharding values: per data source, one
\* physical table for every sharded table.
Product(values) ==
    UNION {{[ds |-> d, tables |-> tup] :
               tup \in {f \in [1..ValuesLen(values) -> 0..(MaxDataSources * MaxPhysical)] :
                           \A t \in 1..ValuesLen(values) : f[t] \in PhysicalTables(values, d, t)}} :
           d \in 0..(values.ds - 1)}

\* The coordinate a command's SQL was rendered for.
genCoord(cmd) == [ds |-> cmd.SqlCommand.ds, tables |-> cmd.SqlCommand.tables]

\* C4: when the restored sharding values are not empty and GenerateSql returns
\* without error, the usage is Shard, the commands are exactly the elements of
\* the product of the sharded tables' (data source, physical table) choices,
\* each once, and every command is addressed to the data source its SQL was
\* rendered for.
C4_OneCommandPerCoordinate ==
    (genDone /\ ValuesLen(genValues) > 0 /\ genRet.err = "nil")
        => LET cmds == genRet.result.Commands
           IN  /\ genRet.result.Usage = UsageShard
               /\ {genCoord(cmds[i]) : i \in 1..Len(cmds)} = Product(genValues)
               /\ Len(cmds) = Cardinality(Product(genValues))
               /\ \A i \in 1..Len(cmds) : cmds[i].DataSource = cmds[i].SqlCommand.ds

C4_Witness ==
    /\ genDone
    /\ genRet.err = "nil"
    /\ genValues.ds = 2
    /\ genValues.tables = <<2, 2>>
    /\ Len(genRet.result.Commands) = 8
    /\ genArgs.defaultDataSource = 0
    /\ genRet.result.Commands[8].DataSource = 1

\* a <= b in lexicographic order, for sequences of one length.
LexLE(a, b) ==
    \/ a = b
    \/ \E i \in 1..Len(a) : a[i] < b[i] /\ \A j \in 1..(i - 1) : a[j] = b[j]

\* C5: in the returned commands the data source of a command is never smaller
\* than that of the command before it, and within one data source the physical
\* tables never decrease, compared table by table in table order.
C5_CommandsInLexicographicOrder ==
    genDone
        => LET cmds == genRet.result.Commands
           IN  \A i \in 1..(Len(cmds) - 1) :
                   \/ cmds[i].DataSource < cmds[i + 1].DataSource
                   \/ /\ cmds[i].DataSource = cmds[i + 1].DataSource
                      /\ LexLE(cmds[i].SqlCommand.tables, cmds[i + 1].SqlCommand.tables)

C5_Witness ==
    /\ genDone
    /\ Len(genRet.result.Commands) = 8
    /\ genRet.result.Commands[2].SqlCommand.tables = <<0, 2>>
    /\ genRet.result.Commands[3].SqlCommand.tables = <<2, 0>>
    /\ genRet.result.Commands[5].DataSource = 1

\* C6 as stated: when RestoreSql fails with EmptyInList at a cursor position,
\* the call still succeeds and returns the commands of all the other shards.
C6_EmptyInListSkipsShard ==
    (genDone /\ genLogged("RestoreSql!EmptyInList"))
        => /\ genRet.err = "nil"
           /\ genRet.result.Usage = UsageShard
           /\ Len(genRet.result.Commands) + Cardinality({i \in 1..Len(genCalls) : genCalls[i] = "RestoreSql!EmptyInList"})
                 = Cardinality(Product(genValues))

\* C7: when RestoreShardingValues yields an empty set, GenerateSql returns
\* usage Raw and no commands, and has neither constructed a runtime, nor called
\* SetVars, nor restored any SQL; with values that are not empty a result it
\* returns has usage Shard.
C7_EmptyValuesReturnRaw ==
    /\ (genLogged("RestoreShardingValues") /\ ValuesLen(genValues) = 0)
          => /\ genDone
             /\ genRet = [result |-> [Usage |-> UsageRaw, Commands |-> <<>>], err |-> "nil"]
             /\ genCalls = <<"RestoreShardingValues">>
             /\ genRuntime = NilRuntime
             /\ genExplVars = 0
    /\ (genDone /\ ValuesLen(genValues) > 0 /\ genRet.err = "nil")
          => genRet.result.Usage = UsageShard

C7_Witness ==
    /\ genDone
    /\ genLogged("RestoreShardingValues")
    /\ ValuesLen(genValues) = 0
    /\ genRet.result.Usage = UsageRaw

\* The calls that failed, with the error each returned.
genFailures ==
    {<<"RestoreShardingValues!error", "error">>, <<"NewRuntime!error", "error">>,
     <<"SetVars!error", "error">>, <<"RestoreSql!error", "error">>,
     <<"RestoreSql!EmptyInList", "EmptyInList">>}

\* C30: when RestoreShardingValues, NewRuntime, SetVars or a RestoreSql has
\* failed, GenerateSql has returned a nil result and the error of that
\* call, which was its last call; otherwise it returns a nil error with a
\* result that is not nil, holding for usage Shard one command per
\* coordinate.
C30_GenerateSqlAllOrNothing ==
    genDone =>
        IF \E i \in 1..Len(genCalls) : \E f \in genFailures : genCalls[i] = f[1]
        THEN /\ genRet.result = NilResult
             /\ <<genCalls[Len(genCalls)], genRet.err>> \in genFailures
             /\ \A i \in 1..(Len(genCalls) - 1) : \A f \in genFailures : genCalls[i] # f[1]
        ELSE /\ genRet.err = "nil"
             /\ genRet.result # NilResult
             /\ genRet.result.Usage = UsageShard
                    => Len(genRet.result.Commands) = Cardinality(Product(genValues))

\* A RestoreSql failed after commands had been built for earlier coordinates.
C30_Witness ==
    /\ genDone
    /\ genRet = [result |-> NilResult, err |-> "error"]
    /\ Len(genResult.Commands) >= 2
    /\ genCalls[Len(genCalls)] = "RestoreSql!error"

\* The cursor is exhausted: Next returns false and leaves the runtime as it is.
genExhausted(values, rt) ==
    /\ ~runtimeHasNext(values, rt)
    /\ runtimeNext(values, rt) = rt
    /\ runtimeNext(values, runtimeNext(values, rt)) = rt

\* C23: GenerateSql returns after finitely many calls of Next, and when gen
\* has left its loop Next returns false on every later call and leaves the
\* cursor, the current data source and the bind variables unchanged.
C23_GenerationLoopTerminates ==
    /\ <>(genPc = "done")
    /\ []((genPc = "done" /\ genRet.err = "nil" /\ genRet.result.Usage = UsageShard)
            => genExhausted(genValues, genRuntime))

\* gen returned after more than one coordinate, on the last data source.
C23_Witness ==
    /\ genPc = "done"
    /\ genRet.err = "nil"
    /\ genRet.result.Usage = UsageShard
    /\ Len(genRet.result.Commands) > 2
    /\ genRuntime.ds > 0
    /\ genExhausted(genValues, genRuntime)

----------------------------------------------------------------------------
(* Claims about the rewriting Engine (checked under SpecRewrite). *)

rwLookupMethods ==
    {"RewriteTable", "RewriteField", "RewriteColumn", "RewritePatterIn", "RewriteBetween"}

rwWriterOf(method) ==
    CASE method = "RewriteTable" -> "TableNameWriter"
      [] method \in {"RewriteField", "RewriteColumn"} -> "ColumnNameWriter"
      [] method = "RewritePatterIn" -> "PatternInWriter"
      [] method = "RewriteBetween" -> "BetweenWriter"
      [] OTHER -> "LimitWriter"

rwLimitWithOffset == rwCall.ctx.hasLimit /\ rwCall.ctx.hasOffset

\* C8 as stated: RewriteLimit yields a limit writer exactly when the statement
\* has a LIMIT with an offset and the explain has at least one sharded table
\* (the writer construction succeeding).
C8_LimitWriterNeedsShardedTable ==
    (rwCall.method = "RewriteLimit" /\ ~rwCall.ctx.writerErr)
        => (rwRet.result.kind = "rewrite"
               <=> (rwLimitWithOffset /\ rwCall.ctx.shardingTables # {}))

\* C8 amended: RewriteLimit yields a limit writer exactly when the statement
\* has a LIMIT with an offset and the writer can be constructed, whether or not
\* the explain has a sharded table; without an offset (or without a LIMIT) it
\* yields the no-rewrite result and no error.
C8_LimitWriterIffOffset ==
    rwCall.method = "RewriteLimit"
        => /\ rwRet.result.kind = "rewrite" <=> (rwLimitWithOffset /\ ~rwCall.ctx.writerErr)
           /\ rwRet.result.kind = "rewrite"
                 => rwRet = [result |-> ResultFromLimit("LimitWriter"), err |-> "nil"]
           /\ ~rwLimitWithOffset
                 => rwRet = [result |-> NoneRewriteLimitResult, err |-> "nil"]

C8_Witness ==
    /\ rwCall.method = "RewriteLimit"
    /\ rwLimitWithOffset
    /\ rwCall.ctx.shardingTables = {}
    /\ rwRet.result.kind = "rewrite"

\* C9 as stated: RewritePatterIn and RewriteBetween return no error for a
\* predicate whose left operand is not a plain column name.
C9_UnpushablePredicateIsNoError ==
    (rwCall.method \in {"RewritePatterIn", "RewriteBetween"} /\ ~rwCall.node.plain)
        => rwRet.err = "nil"

\* C10: RewriteTable, RewriteField, RewriteColumn, RewritePatterIn and
\* RewriteBetween return a result with their writer and the sharding descriptor
\* exactly when the lookup finds a sharded table for the node (and the writer
\* is constructed), the no-rewrite result exactly when the lookup finds none,
\* an error and no result when the lookup or the writer construction fails, and
\* never a result together with an error.
C10_ResultFollowsLookup ==
    rwCall.method \in rwLookupMethods
        => LET found == FindShardingTable(rwCall.node.table, rwCall.ctx)
               lookedUp == rwCall.node.plain
               res == rwRet.result
           IN  /\ res.kind = "rewrite"
                     <=> (lookedUp /\ found.err = "nil" /\ found.ok /\ ~rwCall.ctx.writerErr)
               /\ res.kind = "rewrite"
                     => /\ res.writer = rwWriterOf(rwCall.method)
                        /\ res.sd = rwCall.node.table
                        /\ res.sd \in rwCall.ctx.shardingTables
               /\ res.kind = "none"
                     <=> (lookedUp /\ found.err = "nil" /\ ~found.ok)
               /\ (lookedUp /\ (found.err # "nil" \/ (found.ok /\ rwCall.ctx.writerErr)))
                     => (rwRet.err # "nil" /\ res = NilRewriteResult)
               /\ ~(res # NilRewriteResult /\ rwRet.err # "nil")
               /\ (res = NilRewriteResult) <=> (rwRet.err # "nil")

C10_Witness ==
    /\ rwCall.method = "RewriteField"
    /\ rwCall.ctx.shardingTables = {"t2"}
    /\ rwCall.node.table = "t2"
    /\ rwRet.result = ResultFromExprNode("ColumnNameWriter", "t2")
    /\ rwRet.err = "nil"

----------------------------------------------------------------------------
(* Claims about the handshake and the ephemeral writers (checked under     *)
(* SpecHandshake).                                                         *)

hsHandshakeWriters == {"writeInitialHandshake", "writeInitialHandshakeV10"}

\* The HandshakeV10 payload, field by field, for a connection and a status.
HandshakeV10Layout(cc, status) ==
    <<10>>
    \o cc.version \o <<0>>
    \o <<cc.connectionID.lo % 256, cc.connectionID.lo \div 256,
         cc.connectionID.hi % 256, cc.connectionID.hi \div 256>>
    \o [i \in 1..8 |-> cc.salt[i]]
    \o <<0>>
    \o <<cc.capability.lo % 256, cc.capability.lo \div 256>>
    \o <<cc.collation>>
    \o <<status % 256, status \div 256>>
    \o <<cc.capability.hi % 256, cc.capability.hi \div 256>>
    \o <<21>>
    \o [i \in 1..10 |-> 0]
    \o [i \in 1..12 |-> cc.salt[8 + i]]
    \o <<0>>
    \o AUTH_CACHING_SHA2_PASSWORD \o <<0>>

\* C11: the initial handshake packet a handshake writer sends holds, in
\* order, protocol version 10, the NUL-terminated server version, the 4-byte
\* little-endian connection id, salt bytes 0..7, a 0x00 filler, the lower two
\* capability bytes, the collation byte, two status bytes, the upper two
\* capability bytes, the length byte 21, ten zero bytes, salt bytes 8..19, a
\* 0x00 terminator and the NUL-terminated plugin name caching_sha2_password.
C11_InitialHandshakeLayout ==
    (hsCall.method \in hsHandshakeWriters /\ hsRet.sent)
        => \E status \in StatusSet : hsRet.data = HandshakeV10Layout(hsCall.args, status)

hsReadOf == hsCall.method = "readHandshakeResponse" /\ hsCall.args.io = "nil"

\* C12: for every well-formed client handshake response with
\* CLIENT_PROTOCOL_41, readHandshakeResponse returns the collation, the user
\* name, the auth response, the database (when CLIENT_CONNECT_WITH_DB) and the
\* plugin name (when CLIENT_PLUGIN_AUTH, else mysql_native_password) exactly
\* as the client encoded them, in each of the three auth encodings; a
\* response without CLIENT_PROTOCOL_41 is rejected with an error.
C12_HandshakeResponseRoundTrip ==
    hsReadOf =>
        LET r == hsCall.args.client
        IN  IF HasFlag(r.capability, ClientProtocol41)
            THEN /\ hsRet.err = "nil"
                 /\ hsRet.info.CollationID = r.collation
                 /\ hsRet.info.User = r.user
                 /\ hsRet.info.AuthResponse = r.auth
                 /\ hsRet.info.Database =
                        (IF HasFlag(r.capability, ClientConnectWithDB) THEN r.db ELSE <<>>)
                 /\ hsRet.info.AuthPlugin =
                        (IF HasFlag(r.capability, ClientPluginAuth)
                         THEN r.plugin ELSE AUTH_NATIVE_PASSWORD)
            ELSE hsRet.err # "nil"

\* A NUL-terminated auth response followed by a database and a plugin name
\* was parsed.
C12_Witness ==
    /\ hsReadOf
    /\ HasFlag(hsCall.args.client.capability, ClientProtocol41)
    /\ HasFlag(hsCall.args.client.capability, ClientConnectWithDB)
    /\ HasFlag(hsCall.args.client.capability, ClientPluginAuth)
    /\ ~HasFlag(hsCall.args.client.capability, ClientPluginAuthLenencClientData)
    /\ ~HasFlag(hsCall.args.client.capability, ClientSecureConnection)
    /\ hsRet.err = "nil"
    /\ hsRet.info.AuthResponse = <<1, 39, 255>>
    /\ hsRet.info.Database = <<100, 98>>
    /\ hsRet.info.AuthPlugin = AUTH_CACHING_SHA2_PASSWORD

\* C24: when the auth response of the packet cannot be read (the
\* length-encoded auth data is NULL or truncated), readHandshakeResponse
\* returns an error, and so never a HandshakeResponseInfo with a nil error.
C24_UnreadableAuthIsRejected ==
    hsCall.method = "readHandshakeResponse (auth unreadable)" => hsRet.err \notin {"nil", "panic"}

hsEphemeralWriters ==
    {"writeInitialHandshakeV10", "writeColumnDefinition", "writePrepareResponse",
     "writeColumnCount", "writeRow", "writeMoreDataFlag", "WriteAuthSwitchRequest"}

\* C13: every packet writer that reserves an ephemeral buffer has stored
\* exactly as many bytes as it reserved when it calls WriteEphemeralPacket,
\* for every field length, plugin name and 20-byte salt; a writer whose final
\* position differs from the reserved length returns an error and sends
\* nothing.
C13_WritersFillReservedBuffer ==
    hsCall.method \in hsEphemeralWriters =>
        /\ Len(hsRet.data) = hsRet.length
        /\ (Len(hsRet.data) # hsRet.length => ~hsRet.sent /\ hsRet.err # "nil")

\* A column definition with a name of 251 bytes was sent.
C13_Witness ==
    /\ hsCall.method = "writeColumnDefinition"
    /\ Len(hsCall.args.field.Name) = MaxNameLen
    /\ Len(hsCall.args.field.Schema) = 1
    /\ hsRet.sent
    /\ Len(hsRet.data) = hsRet.length

----------------------------------------------------------------------------
(* Claims about the Value codec (checked under SpecValue). The integer a   *)
(* text denotes is taken from NumberTexts, not from the parsers.           *)

valIsNumberText(val) == \E t \in NumberTexts : t.text = val
valTextOf(val) == CHOOSE t \in NumberTexts : t.text = val

\* -(1<<63) <= n <= 1<<63 - 1
valFitsInt64(n) ==
    /\ n # NoNumber
    /\ IF n.neg THEN ~BigLess(Cutoff63, Reverse(n.mag)) ELSE BigLess(Reverse(n.mag), Cutoff63)
\* 0 <= n <= 1<<64 - 1
valFitsUint64(n) ==
    /\ n # NoNumber
    /\ (~n.neg \/ n.mag = <<0>>)
    /\ ~BigLess(MaxUint64, Reverse(n.mag))

\* The text is the base-10 rendering of the number it denotes.
valCanonical(val) ==
    /\ valIsNumberText(val)
    /\ valTextOf(val).num # NoNumber
    /\ val = AppendInt(valTextOf(val).num)

valAccepted(method) == valCall.method = method /\ valRet.err = "nil"

\* C14: every integral Value NewValue accepts holds the canonical base-10
\* text of its number (never a hexadecimal or octal text), so that ToInt64
\* and ToUint64, which parse in base 10, succeed with that number whenever it
\* is in range.
C14_IntegralValueIsCanonical ==
    (valAccepted("NewValue") /\ IsIntegral(valRet.v.ValueType)) =>
        /\ valCanonical(valRet.v.Value)
        /\ (valConv.method = "ToInt64" /\ valFitsInt64(valTextOf(valRet.v.Value).num)
                => valConv.err = "nil" /\ valConv.i = valTextOf(valRet.v.Value).num)
        /\ (valConv.method = "ToUint64" /\ valFitsUint64(valTextOf(valRet.v.Value).num)
                => valConv.err = "nil" /\ valConv.i = valTextOf(valRet.v.Value).num)

\* The bytes parse as an integer of the signedness of the type, as a float
\* for a float type or Decimal; a quoted type and Bit take any bytes.
valParsesAs(typ, val) ==
    \/ /\ IsSigned(typ)
       /\ valIsNumberText(val)
       /\ valFitsInt64(valTextOf(val).num)
    \/ /\ IsUnsigned(typ)
       /\ valIsNumberText(val)
       /\ ~valTextOf(val).signed
       /\ valFitsUint64(valTextOf(val).num)
    \/ /\ IsFloat(typ) \/ typ = "Decimal"
       /\ valIsNumberText(val)
       /\ valTextOf(val).float
    \/ IsQuoted(typ)
    \/ typ = "Bit"

\* C15 (as stated): NewValue(typ, val) succeeds exactly when typ is an
\* integer type and val parses as an integer, or typ is a float type or
\* Decimal and val parses as a float, or typ is a quoted type or Bit; for
\* every other type it returns an error, and on every error the Value
\* returned is NULL.
C15_NewValueSucceedsExactlyWhen ==
    valCall.method = "NewValue" =>
        /\ valRet.err = "nil" <=> valParsesAs(valCall.typ, valCall.val)
        /\ valRet.err # "nil" => valRet.v = NULL

\* C15 (amended): as above, and NewValue also succeeds for the type Null,
\* for any bytes, returning NULL.
C15_NewValueSucceedsAlsoForNull ==
    valCall.method = "NewValue" =>
        /\ valRet.err = "nil" <=> (valParsesAs(valCall.typ, valCall.val) \/ valCall.typ = "Null")
        /\ valRet.err = "nil" /\ valCall.typ # "Null"
               => valRet.v = [ValueType |-> valCall.typ, Value |-> valCall.val]
        /\ valRet.err # "nil" \/ valCall.typ = "Null" => valRet.v = NULL

\* NewValue was given the type Null and bytes, and returned NULL without an
\* error.
C15_Witness ==
    /\ valAccepted("NewValue")
    /\ valCall.typ = "Null"
    /\ valCall.val = <<49, 46, 53>>
    /\ valRet.v = NULL

\* C16: every Value of type Null that NewValue, MakeTrusted or
\* InterfaceToValue produces has no bytes and equals NULL, whatever bytes
\* were passed.
C16_NullValueHasNoBytes ==
    (valCall.method \in {"NewValue", "MakeTrusted", "InterfaceToValue"}
         /\ (valRet.v.ValueType = "Null" \/ valCall.typ = "Null")) =>
        /\ valRet.v.ValueType = "Null"
        /\ valRet.v.Value = <<>>
        /\ valRet.v = NULL

\* MakeTrusted was given the type Null and bytes.
C16_Witness ==
    /\ valCall.method = "MakeTrusted"
    /\ valCall.typ = "Null"
    /\ valCall.val = <<48, 120, 49, 48>>
    /\ valRet.v = NULL

\* C17: NewIntegral(s) returns an Int64 Value when the number s denotes fits
\* a signed 64-bit integer, a Uint64 Value when it fits only an unsigned one
\* and an error when it fits neither; on success the bytes are the base-10
\* text of the number.
C17_NewIntegralPicksType ==
    valCall.method = "NewIntegral" =>
        LET n == valTextOf(valCall.val).num
        IN  IF valFitsInt64(n)
            THEN valRet = [v |-> [ValueType |-> "Int64", Value |-> AppendInt(n)], err |-> "nil"]
            ELSE IF valFitsUint64(n)
            THEN valRet = [v |-> [ValueType |-> "Uint64", Value |-> AppendInt(n)], err |-> "nil"]
            ELSE valRet.err # "nil"

\* The character EncodeSQL writes after the backslash for an escaped byte,
\* and 0 for a byte it leaves alone.
valEscapeOf(ch) ==
    CASE ch = 0 -> 48
      [] ch = 8 -> 98
      [] ch = 9 -> 116
      [] ch = 10 -> 110
      [] ch = 13 -> 114
      [] ch = 26 -> 90
      [] ch = 39 -> 39
      [] ch = 34 -> 34
      [] ch = 92 -> 92
      [] OTHER -> 0

\* out, from position i on, is the encoding of val from position k on,
\* followed by the closing quote.
RECURSIVE valEncodes(_, _, _, _)
valEncodes(out, i, val, k) ==
    IF k > Len(val) THEN i = Len(out) /\ out[i] = 39
    ELSE IF valEscapeOf(val[k]) = 0
    THEN i <= Len(out) /\ out[i] = val[k] /\ valEncodes(out, i + 1, val, k + 1)
    ELSE /\ i + 1 <= Len(out)
         /\ out[i] = 92
         /\ out[i + 1] = valEscapeOf(val[k])
         /\ valEncodes(out, i + 2, val, k + 1)

\* Between the two quotes every quote and every backslash follows a backslash
\* that escapes it.
RECURSIVE valNoBareQuote(_, _)
valNoBareQuote(out, i) ==
    IF i >= Len(out) THEN i = Len(out)
    ELSE IF out[i] = 92 THEN i + 1 < Len(out) /\ valNoBareQuote(out, i + 2)
    ELSE out[i] # 39 /\ valNoBareQuote(out, i + 1)

\* C18: for a Value of a quoted type EncodeSQL writes a single quote, then
\* for each byte either a backslash and the mapped character (0x00, 0x08,
\* 0x09, 0x0A, 0x0D, 0x1A, quote, double quote and backslash, mapped to 0, b,
\* t, n, r, Z, quote, double quote and backslash) or the byte unchanged, then
\* the closing quote; no unescaped quote or backslash is left inside.
C18_EncodeSQLEscapes ==
    (valConv.method = "EncodeSQL" /\ IsQuoted(valRet.v.ValueType)) =>
        /\ Len(valConv.out) >= 2
        /\ valConv.out[1] = 39
        /\ valEncodes(valConv.out, 2, valRet.v.Value, 1)
        /\ valNoBareQuote(valConv.out, 2)

\* A VarChar holding a backslash and a quote was encoded.
C18_Witness ==
    /\ valConv.method = "EncodeSQL"
    /\ valRet.v = [ValueType |-> "VarChar", Value |-> <<92, 39>>]
    /\ valConv.out = <<39, 92, 92, 92, 39, 39>>

\* The Value is integral and its text is "0" or "1".
valIsBool(v) == IsIntegral(v.ValueType) /\ v.Value \in {<<48>>, <<49>>}

\* C19: every conversion mismatch yields ErrIncompatibleTypeCast: ToInt64 and
\* ToUint64 on a Value that is not integral, ToFloat64 on a Value that is
\* not numeric, ToBool on a Value that is not an integral 0 or 1 (false for
\* 0, true for 1); no other error is returned for such a mismatch, an
\* unsigned value above the signed 64-bit range given to ToBool included.
C19_MismatchIsIncompatibleTypeCast ==
    /\ (valConv.method \in {"ToInt64", "ToUint64"} /\ ~IsIntegral(valRet.v.ValueType))
           => valConv.err = "ErrIncompatibleTypeCast"
    /\ (valConv.method = "ToFloat64" /\ ~IsNumber(valRet.v.ValueType))
           => valConv.err = "ErrIncompatibleTypeCast"
    /\ valConv.method = "ToBool" =>
           IF valIsBool(valRet.v)
           THEN valConv.err = "nil" /\ (valConv.b <=> valRet.v.Value = <<49>>)
           ELSE valConv.err = "ErrIncompatibleTypeCast"

----------------------------------------------------------------------------
(* Claims about Session.Clone.                                             *)

sesWritten == {t[1] : t \in sesTouched}

\* C20: when s.Clone() has returned c, c equals s field by field (pointer
\* fields by what they lead to) as long as neither was written, the objects
\* of c are none of the objects of s, and whichever of s and c was not
\* written still has the value s had when it was cloned.
C20_CloneIsIndependentSnapshot ==
    sesPc = "cloned" =>
        /\ Reach(sesHeap, sesS) \cap Reach(sesHeap, sesC) = {}
        /\ "s" \notin sesWritten => DeepSession(sesHeap, sesS) = sesSnap
        /\ "c" \notin sesWritten => DeepSession(sesHeap, sesC) = sesSnap

\* A BindVariable of the clone was written after a Session with every
\* field set was cloned.
C20_Witness ==
    /\ sesPc = "cloned"
    /\ sesS.UserDefinedVariables # 0 /\ sesS.ShardSessions # 0 /\ sesS.LockSession # 0
    /\ \E t \in sesTouched : t[1] = "c" /\ t[2] # 0 /\ sesHeap[t[2]].kind = "bv"
    /\ DeepSession(sesHeap, sesC) # sesSnap
    /\ DeepSession(sesHeap, sesS) = sesSnap

----------------------------------------------------------------------------
(* Claims about Value.Equals and Value.Clone (checked under SpecEquals).   *)

----------------------------------------------------------------------------
(* Claims about service.ModifyNamespace (checked under SpecModify).        *)

\* The steps of a ModifyNamespace over n proxies, in the order claimed.
ModifySteps(n) ==
    <<"verify", "encrypt", "update", "list">>
    \o [i \in 1..n |-> "prepare"] \o [i \in 1..n |-> "commit"]
ModifyProxies(n) ==
    <<0, 0, 0, 0>> \o [i \in 1..n |-> i] \o [i \in 1..n |-> i]

\* C25: the steps ModifyNamespace has performed are the first steps of
\* verify, encrypt, update, list, PrepareConfig on every proxy, CommitConfig
\* on every proxy; a CommitConfig is sent only after PrepareConfig succeeded
\* on all proxies; a failed step is the last step and its error is returned;
\* after a failed verify or encrypt the store and the proxies are untouched.
C25_ModifyNamespaceStepOrder ==
    /\ Len(mnSteps) <= Len(ModifySteps(mnProxies))
    /\ \A i \in 1..Len(mnSteps) :
          /\ mnSteps[i].step = ModifySteps(mnProxies)[i]
          /\ mnSteps[i].proxy = ModifyProxies(mnProxies)[i]
          /\ i < Len(mnSteps) => mnSteps[i].ok
          /\ mnSteps[i].step = "commit" => mnPrepared = 1..mnProxies
    /\ mnErr \notin {"none", "nil"} <=> (mnSteps # <<>> /\ ~mnSteps[Len(mnSteps)].ok)
    /\ mnErr \in {"verify namespace error", "encrypt namespace error"}
          => mnStore \in NamespaceStores /\ mnPrepared = {} /\ mnCommitted = {}
    /\ mnErr = "nil" => Len(mnSteps) = Len(ModifySteps(mnProxies))

\* PrepareConfig succeeded on both proxies and the second CommitConfig failed.
C25_Witness ==
    /\ mnPc = "done"
    /\ mnErr = "commit error"
    /\ mnProxies = 2
    /\ mnPrepared = {1, 2}
    /\ mnCommitted = {1}

\* C26: when ModifyNamespace returns an error the store does not hold the
\* new namespace and no proxy has committed; when it returns nil the store
\* holds it and every listed proxy has committed.
C26_ModifyNamespaceAllOrNothing ==
    mnPc = "done" =>
        IF mnErr = "nil"
        THEN mnStore[mnNamespace] = "new" /\ mnCommitted = 1..mnProxies
        ELSE mnStore[mnNamespace] # "new" /\ mnCommitted = {}

----------------------------------------------------------------------------
(* Claims about service.QueryNamespace (checked under SpecQuery).          *)

\* C28: QueryNamespace returns either an error with nil data, or a nil
\* error with one namespace per requested name, in request order.
C28_QueryNamespaceAllNamesOrError ==
    qnPc = "done" =>
        \/ qnRet.err # "nil" /\ qnRet.data = <<>>
        \/ qnRet.err = "nil" /\ qnRet.data = qnNames

----------------------------------------------------------------------------
(* Claims about the fingerprint functions (checked under                   *)
(* SpecFingerprintFair).                                                   *)

fpStarted == {i \in 1..MaxProxies : fpG[i].pc # "none"}

\* The responses of the proxies whose goroutine has it to merge.
fpExpected ==
    {[proxy |-> i, value |-> FingerprintResponse(fpOp, i, fpG[i].ok).value] :
        i \in {j \in 1..fpProxies : ~FingerprintResponse(fpOp, j, fpG[j].ok).isNil}}

\* C27: under every interleaving no goroutine waits at its send to respC,
\* nothing is sent on or closes a closed channel, respC is closed only when
\* every goroutine has sent exactly one response, and the call returns; when
\* the proxies were listed it returns nil, whatever queries failed, with the
\* responses of the other proxies merged.
C27_FingerprintChannelProtocol ==
    /\ [](/\ \A i \in fpStarted : fpG[i].pc = "send" => Len(fpChan) < fpCap
          /\ fpFault = "none"
          /\ \A i \in fpStarted : fpG[i].sent <= 1
          /\ fpClosed => (fpStarted = 1..fpProxies /\ \A i \in fpStarted : fpG[i].sent = 1)
          /\ (fpPc = "done" /\ fpRet = "nil") => fpResult = fpExpected
          /\ fpPc = "done" => (fpRet = "nil" \/ (fpRet = "list error" /\ fpStarted = {})))
    /\ <>(fpPc = "done")

\* Two proxies, the query of one failed, and the call has returned the
\* response of the other.
C27_Witness ==
    /\ fpPc = "done"
    /\ fpRet = "nil"
    /\ fpProxies = 2
    /\ fpG[1].ok /\ ~fpG[2].ok
    /\ \E e \in fpResult : e.proxy = 1 /\ e.value # ""

----------------------------------------------------------------------------
(* Claims about concurrent GenerateSql calls (checked under                *)
(* SpecConcurrent).                                                        *)

\* What gen returns for a runtime when no other call touches the explain.
RECURSIVE genAlone(_, _, _, _)
genAlone(values, rt, explVars, result) ==
    IF runtimeHasNext(values, rt)
    THEN LET next == runtimeNext(values, rt)
         IN  genAlone(values, next, explVars,
                      genAppend(result, ScatterCommand(next, RestoreSql(explVars, values, next))))
    ELSE result

----------------------------------------------------------------------------
(* The two handshake writers compared (under SpecHandshake). *)

\* Whether a payload ends with the NUL-terminated name of an auth plugin.
EndsWithPluginName(data) ==
    \E name \in {AUTH_CACHING_SHA2_PASSWORD, AUTH_NATIVE_PASSWORD} :
        /\ Len(data) >= Len(name) + 1
        /\ SubSeq(data, Len(data) - Len(name), Len(data)) = name \o <<0>>

\* C31: for the same connection id, 20-byte salt, capability flags and
\* collation, writeInitialHandshake and writeInitialHandshakeV10 produce
\* byte-identical handshake payloads: the payload either writer sends is the
\* payload the other builds for that connection, and it ends with the
\* NUL-terminated auth plugin name.
C31_HandshakeWritersAgree ==
    (hsCall.method \in hsHandshakeWriters /\ hsRet.sent) =>
        /\ hsRet.data = writeInitialHandshake(hsCall.args)
        /\ hsRet.data = writeInitialHandshakeV10Data(hsCall.args)
        /\ EndsWithPluginName(hsRet.data)

----------------------------------------------------------------------------
(* Session.Clone on Sessions with nil fields (under SpecSession). *)

\* C32: s.Clone() completes without failure for every Session, also one
\* whose Options, LockSession, maps or slices are nil or whose session
\* slices or user-defined variables hold nil entries; a map, a slice or a
\* lock session that is nil in s is nil in the clone.
C32_CloneNeverFails ==
    /\ sesPc # "panic"
    /\ sesPc = "cloned" =>
          \A f \in PointerFields \ {"Options"} : sesS[f] = 0 => sesC[f] = 0

====
